---- MODULE Spec2Model ----
(***************************************************************************)
(* vkapi.Registry: construction of the registry from a Vulkan XML          *)
(* document (parse, filter, core platform), src/vkapi/vkapi.py.            *)
(*                                                                         *)
(* Objects are identified by their name: typeObj, cmdObj and extObj are    *)
(* the heap (every Type, Command and Extension object the parser created,  *)
(* whether or not a registry map still refers to it); types, commands,     *)
(* extensions and platforms are the registry's dictionaries, kept in       *)
(* insertion order.  root is the part of the XML document read so far.     *)
(***************************************************************************)
EXTENDS Integers, Sequences, FiniteSets, TLC

VARIABLES pc, root, typeObj, cmdObj, extObj,
          types, commands, extensions, platforms, args

vars == <<pc, root, typeObj, cmdObj, extObj,
          types, commands, extensions, platforms, args>>

Range(s) == {s[i] : i \in DOMAIN s}

\* A dict: a function from its keys; EmptyMap is {}.
EmptyMap == [n \in {} |-> 0]
Put(f, k, v) == [n \in (DOMAIN f) \cup {k} |-> IF n = k THEN v ELSE f[n]]
Remove(f, ks) == [n \in (DOMAIN f) \ ks |-> f[n]]

(* ---------------------------------------------------------------------- *)
(* Strings that the code tests with the str operator `in` are sequences    *)
(* of characters.                                                          *)
(* ---------------------------------------------------------------------- *)
vulkan == <<"v", "u", "l", "k", "a", "n">>
disabled == <<"d", "i", "s", "a", "b", "l", "e", "d">>
NoAttr == <<>>

\* Python `a in b` for two str values: a occurs in b as a substring.
StrIn(a, b) ==
  \E i \in 0..(Len(b) - Len(a)) : SubSeq(b, i + 1, i + Len(a)) = a

(* ---------------------------------------------------------------------- *)
(* The input documents.                                                    *)
(* ---------------------------------------------------------------------- *)
\* Largest number of names in allowed_extensions and in blocked_extensions.
MaxListed == 1

StructNames == <<"S1", "S2">>
EnumName == "E1"
IntrinsicValues == <<"V0">>

\* <type category="struct" structextends="..."> sections: name -> names.
StructSections ==
  { [S1 |-> <<>>, S2 |-> <<"S1">>],
    [S1 |-> <<"S2">>, S2 |-> <<"S1">>] }

\* <commands>: a command and an alias of it.
CommandSection ==
  << [name |-> "c1", alias |-> ""], [name |-> "c1a", alias |-> "c1"] >>

ExtNames == <<"X1", "X2">>
PlatformNames == <<"ggp">>
\* The platform, author and supported attributes of an <extension>; an
\* absent attribute reads as the empty string.
ExtAttributes ==
  { [platform |-> "",    author |-> "KHR", supported |-> vulkan],
    [platform |-> "",    author |-> "KHR", supported |-> disabled],
    [platform |-> "",    author |-> "KHR", supported |-> NoAttr],
    [platform |-> "ggp", author |-> "GGP", supported |-> vulkan] }

\* The <require> children of one <extension>.
RequireBlocks ==
  { [types |-> <<>>,     commands |-> <<>>,     enums |-> <<>>],
    [types |-> <<"S1">>, commands |-> <<>>,     enums |-> <<>>],
    [types |-> <<"S2">>, commands |-> <<>>,     enums |-> <<>>],
    [types |-> <<>>,     commands |-> <<"c1">>, enums |-> <<>>],
    [types |-> <<>>,     commands |-> <<>>,     enums |-> <<"V1">>] }

\* <feature>/require/enum[@extends] names.
FeatureSections == { <<>>, <<"V1">> }

\* Constructor arguments.
PlatformArgs ==
  { [none |-> TRUE,  names |-> {}],
    [none |-> FALSE, names |-> {""}],
    [none |-> FALSE, names |-> {"ggp"}],
    [none |-> FALSE, names |-> {"", "ggp"}] }
AuthorArgs ==
  { [none |-> TRUE,  names |-> {}],
    [none |-> FALSE, names |-> {"KHR"}],
    [none |-> FALSE, names |-> {"", "KHR"}] }
SupportedArgs == { vulkan }

\* Before the constructor's arguments are read.
NoArgs == [platforms |-> {}, authors |-> [none |-> TRUE, names |-> {}],
           supported |-> <<>>, allowed |-> {}, blocked |-> {}]

(* ---------------------------------------------------------------------- *)
(* Objects.                                                                *)
(* ---------------------------------------------------------------------- *)
\* Type.__init__: every type starts with an empty extensions list.
NewType(kind) ==
  [kind |-> kind, extensions |-> <<>>, structextends |-> <<>>,
   extendedby |-> <<>>, values |-> EmptyMap]

\* EnumValue.__init__ (a Type): a value object with its own extensions list.
NewEnumValue == [kind |-> "EnumValue", extensions |-> <<>>]

\* Enum.__init__: the values declared inside <enums>.
NewEnum(names) ==
  [NewType("Enum") EXCEPT !.values = [n \in Range(names) |-> NewEnumValue]]

\* Struct.__init__: structextends holds the names of the attribute.
NewStruct(structextends) ==
  [NewType("Struct") EXCEPT !.structextends = structextends]

\* Command.__init__.
NewCommand == [extensions |-> <<>>, feature |-> ""]

Init ==
  /\ pc = "basetypes"
  /\ root = [structs |-> EmptyMap, commands |-> <<>>, extensions |-> <<>>,
             features |-> <<>>, platforms |-> <<>>]
  /\ typeObj = EmptyMap
  /\ cmdObj = EmptyMap
  /\ extObj = EmptyMap
  /\ types = <<>>
  /\ commands = <<>>
  /\ extensions = <<>>
  /\ platforms = EmptyMap
  /\ args = NoArgs

(* ---------------------------------------------------------------------- *)
(* Registry.__parse                                                        *)
(* ---------------------------------------------------------------------- *)
\* Registry.__parse_basetypes: the synthetic 'string' base type.
parse_basetypes ==
  /\ pc = "basetypes"
  /\ typeObj' = Put(typeObj, "string", NewType("BaseType"))
  /\ types' = Append(types, "string")
  /\ pc' = "enums"
  /\ UNCHANGED <<root, cmdObj, extObj, commands, extensions, platforms, args>>

\* Registry.__parse_enums: one <enums type="enum"> block.
parse_enums ==
  /\ pc = "enums"
  /\ typeObj' = Put(typeObj, EnumName, NewEnum(IntrinsicValues))
  /\ types' = Append(types, EnumName)
  /\ pc' = "types"
  /\ UNCHANGED <<root, cmdObj, extObj, commands, extensions, platforms, args>>

\* The body of the structextends loop: append t to the target's extendedby
\* unless it is there already.
AppendExtendedBy(objs, t, se) ==
  IF t \in Range(objs[se].extendedby)
    THEN objs
    ELSE [objs EXCEPT ![se].extendedby = Append(@, t)]

RECURSIVE ExtendTargets(_, _, _)
ExtendTargets(objs, t, ses) ==
  IF ses = <<>> THEN objs
  ELSE ExtendTargets(AppendExtendedBy(objs, t, Head(ses)), t, Tail(ses))

\* "Struct extends are in text, convert to types": over the structs in
\* dictionary order.  The name list becomes the list of the objects of the
\* same names, which here is the same sequence.
RECURSIVE ConvertStructExtends(_, _)
ConvertStructExtends(objs, names) ==
  IF names = <<>> THEN objs
  ELSE ConvertStructExtends(
         ExtendTargets(objs, Head(names), objs[Head(names)].structextends),
         Tail(names))

\* Registry.__parse_types: the struct declarations, then the conversion of
\* structextends.
parse_types ==
  /\ pc = "types"
  /\ \E sec \in StructSections :
       LET created == [n \in (DOMAIN typeObj) \cup Range(StructNames) |->
                         IF n \in Range(StructNames)
                           THEN NewStruct(sec[n]) ELSE typeObj[n]]
       IN /\ root' = [root EXCEPT !.structs = sec]
          /\ typeObj' = ConvertStructExtends(created, StructNames)
  /\ types' = types \o StructNames
  /\ pc' = "commands"
  /\ UNCHANGED <<cmdObj, extObj, commands, extensions, platforms, args>>

\* Registry.__parse_commands: an alias key refers to the aliased Command.
RECURSIVE ParseCommandElements(_, _)
ParseCommandElements(dict, ces) ==
  IF ces = <<>> THEN dict
  ELSE LET ce == Head(ces)
           cmd == IF ce.alias # ""
                    THEN (CHOOSE e \in Range(dict) : e.key = ce.alias).cmd
                    ELSE ce.name
       IN ParseCommandElements(Append(dict, [key |-> ce.name, cmd |-> cmd]),
                               Tail(ces))

parse_commands ==
  /\ pc = "commands"
  /\ root' = [root EXCEPT !.commands = CommandSection]
  /\ commands' = ParseCommandElements(<<>>, CommandSection)
  /\ cmdObj' = [n \in {ce.name : ce \in {e \in Range(CommandSection) : e.alias = ""}}
                  |-> NewCommand]
  /\ pc' = "extensions"
  /\ UNCHANGED <<typeObj, extObj, types, extensions, platforms, args>>

(* ---------------------------------------------------------------------- *)
(* Extensions, features, platforms                                         *)
(* ---------------------------------------------------------------------- *)
\* "We tag types and commands to extensions for filtering": append x to the
\* extensions list of every named object.
RECURSIVE TagObjects(_, _, _)
TagObjects(objs, names, x) ==
  IF names = <<>> THEN objs
  ELSE TagObjects([objs EXCEPT ![Head(names)].extensions = Append(@, x)],
                  Tail(names), x)

\* The Command object behind a key of a commands dictionary.
CommandOf(dict, key) == (CHOOSE e \in Range(dict) : e.key = key).cmd

RECURSIVE CommandObjects(_, _)
CommandObjects(dict, keys) ==
  IF keys = <<>> THEN <<>>
  ELSE <<CommandOf(dict, Head(keys))>> \o CommandObjects(dict, Tail(keys))

\* parse_enum_extend: a new EnumValue is stored under the given name of the
\* extended enum, replacing whatever the name held.  provenance is what the
\* caller then appends to the new value's extensions list (Extension.__init__
\* appends itself, Registry.__parse_features nothing).
parse_enum_extend(enum, name, provenance) ==
  [enum EXCEPT !.values =
     Put(@, name, [NewEnumValue EXCEPT !.extensions = provenance])]

RECURSIVE ExtendEnum(_, _, _)
ExtendEnum(enum, names, provenance) ==
  IF names = <<>> THEN enum
  ELSE ExtendEnum(parse_enum_extend(enum, Head(names), provenance),
                  Tail(names), provenance)

\* Extension.__init__ for the next <extension> element (called by
\* Registry.__parse_extensions, which stores the object under its name).
Extension_init ==
  /\ pc = "extensions"
  /\ Len(root.extensions) < Len(ExtNames)
  /\ \E attr \in ExtAttributes, req \in RequireBlocks :
       LET name == ExtNames[Len(root.extensions) + 1]
           en == [name |-> name, number |-> Len(root.extensions) + 1,
                  platform |-> attr.platform, author |-> attr.author,
                  supported |-> attr.supported, types |-> req.types,
                  commands |-> req.commands, enums |-> req.enums]
           tagged == TagObjects(typeObj, en.types, name)
       IN /\ root' = [root EXCEPT !.extensions = Append(@, en)]
          /\ extObj' = Put(extObj, name, en)
          /\ typeObj' = [tagged EXCEPT ![EnumName] =
                           ExtendEnum(@, en.enums, <<name>>)]
          /\ cmdObj' = TagObjects(cmdObj, CommandObjects(commands, en.commands),
                                  name)
          /\ extensions' = Append(extensions, name)
  /\ UNCHANGED <<pc, types, commands, platforms, args>>

\* Registry.__parse_features: the enum values of the <feature> blocks.
parse_features ==
  /\ pc = "extensions"
  /\ Len(root.extensions) = Len(ExtNames)
  /\ \E fs \in FeatureSections :
       /\ root' = [root EXCEPT !.features = fs]
       /\ typeObj' = [typeObj EXCEPT ![EnumName] = ExtendEnum(@, fs, <<>>)]
  /\ pc' = "platforms"
  /\ UNCHANGED <<cmdObj, extObj, types, commands, extensions, platforms, args>>

\* Mutant of select_types_and_commands: the Platform object carries the
\* protect macro where its name belongs.
select_types_and_commands_MacroAsName(reg, name) ==
  LET OfPlatform(k) == name = extObj[k].platform
      exts == Range(SelectSeq(reg.extensions, OfPlatform))
      CommandIn(e) == exts \cap Range(cmdObj[e.cmd].extensions) # {}
      TypeIn(k) == exts \cap Range(typeObj[k].extensions) # {}
  IN [valid |-> TRUE, name |-> "VK_USE_PLATFORM",
      extensions |-> SelectSeq(reg.extensions, OfPlatform),
      commands |-> SelectSeq(reg.commands, CommandIn),
      types |-> SelectSeq(reg.types, TypeIn)]

\* Platform.__init__ and select_types_and_commands for the platform called
\* name, on the registry dictionaries reg.
select_types_and_commands(reg, name) ==
  LET OfPlatform(k) == name = extObj[k].platform
      exts == Range(SelectSeq(reg.extensions, OfPlatform))
      CommandIn(e) == exts \cap Range(cmdObj[e.cmd].extensions) # {}
      TypeIn(k) == exts \cap Range(typeObj[k].extensions) # {}
  IN [valid |-> TRUE, name |-> name,
      extensions |-> SelectSeq(reg.extensions, OfPlatform),
      commands |-> SelectSeq(reg.commands, CommandIn),
      types |-> SelectSeq(reg.types, TypeIn)]

\* dict | dict for dictionaries kept as key sequences.
DictUnion(a, b) ==
  LET New(e) == e \notin Range(a) IN a \o SelectSeq(b, New)

\* Mutant of CorePlatform: the core platform is built from the dictionaries
\* of the parse, as the named platforms are.
CorePlatform_BeforeFilter(reg) ==
  LET parsed == [reg EXCEPT
                   !.extensions = [i \in DOMAIN root.extensions |->
                                     root.extensions[i].name],
                   !.types = <<"string", EnumName>> \o StructNames,
                   !.commands = ParseCommandElements(<<>>, root.commands)]
      p == select_types_and_commands(parsed, "")
      CoreCommand(e) == Len(cmdObj[e.cmd].extensions) = 0
      CoreType(k) == Len(typeObj[k].extensions) = 0
  IN [p EXCEPT
        !.commands = DictUnion(@, SelectSeq(parsed.commands, CoreCommand)),
        !.types = DictUnion(@, SelectSeq(parsed.types, CoreType))]

\* Mutant of CorePlatform: the types and commands without an extension are
\* not added to the core platform.
CorePlatform_NoCoreUnion(reg) == select_types_and_commands(reg, "")

\* Platform.__init__ with pe = None: the core platform.
CorePlatform(reg) ==
  LET p == select_types_and_commands(reg, "")
      CoreCommand(e) == Len(cmdObj[e.cmd].extensions) = 0
      CoreType(k) == Len(typeObj[k].extensions) = 0
  IN [p EXCEPT !.commands = DictUnion(@, SelectSeq(reg.commands, CoreCommand)),
               !.types = DictUnion(@, SelectSeq(reg.types, CoreType))]

\* The registry dictionaries a Platform is built from.
Registry == [extensions |-> extensions, platforms |-> platforms,
             types |-> types, commands |-> commands, typeObj |-> typeObj]

\* Registry.__parse_platforms: one Platform per <platform> element, built
\* from the dictionaries as they are at this point of the parse.
parse_platforms ==
  /\ pc = "platforms"
  /\ root' = [root EXCEPT !.platforms = PlatformNames]
  /\ platforms' = [n \in Range(PlatformNames) |->
                     select_types_and_commands(Registry, n)]
  /\ pc' = "filter"
  /\ UNCHANGED <<typeObj, cmdObj, extObj, types, commands, extensions, args>>

(* ---------------------------------------------------------------------- *)
(* Registry.__filter_registry                                              *)
(* ---------------------------------------------------------------------- *)
\* The test both filters apply to an extension's author.
AuthorAccepted(extension_authors, author) ==
  extension_authors.none \/ author \in extension_authors.names

\* `x.supported in supported`: supported is a str, so this is the str test.
SupportedMatches(x_supported, supported) == StrIn(x_supported, supported)

\* Registry.__select_extensions over the dictionary exts.
select_extensions(exts, platforms_, extension_authors, supported) ==
  LET Matches(k) ==
        /\ extObj[k].platform \in platforms_
        /\ SupportedMatches(extObj[k].supported, supported)
        /\ AuthorAccepted(extension_authors, extObj[k].author)
  IN SelectSeq(exts, Matches)

\* Mutant of FilteredSet: the block-list subtracted before the allow-list is
\* added.
FilteredSet_BlockedFirst(exts, a) ==
  ((Range(select_extensions(exts, a.platforms, a.authors, a.supported))
      \ a.blocked) \cup a.allowed)

\* The first lines of __filter_registry: the selected extension set.
FilteredSet(exts, a) ==
  ((Range(select_extensions(exts, a.platforms, a.authors, a.supported))
      \cup a.allowed) \ a.blocked)

\* The test of the extendedby and structextends loops for one entry eb.
KeepStructRef(eb, extension_set) ==
  IF Len(typeObj[eb].extensions) > 0
    THEN extension_set \cap Range(typeObj[eb].extensions) # {}
    ELSE TRUE

\* Mutant of KeepEnumValue: enum values are left unfiltered.
KeepEnumValue_Unfiltered(ev, extension_set) == TRUE

\* The test of the enum loop for one value ev (TRUE: the value stays).
KeepEnumValue(ev, extension_set) ==
  IF Len(ev.extensions) > 0
    THEN extension_set \cap Range(ev.extensions) # {}
    ELSE TRUE

\* Mutant of filter_type_by_extensions: the structextends loop lacks its
\* else branch, so an entry without extensions is dropped from that list.
filter_type_by_extensions_NoElse(t, extension_set) ==
  LET KeepRef(eb) == KeepStructRef(eb, extension_set)
      KeepTagged(eb) ==
        /\ Len(typeObj[eb].extensions) > 0
        /\ extension_set \cap Range(typeObj[eb].extensions) # {}
  IN IF t.kind = "Struct"
       THEN [t EXCEPT !.extendedby = SelectSeq(t.extendedby, KeepRef),
                      !.structextends = SelectSeq(t.structextends, KeepTagged)]
     ELSE IF t.kind = "Enum"
       THEN [t EXCEPT !.values =
               Remove(@, {en \in DOMAIN t.values :
                            ~KeepEnumValue(t.values[en], extension_set)})]
     ELSE t

\* Mutant of filter_type_by_extensions: the two filtered lists are assigned
\* to each other's attribute.
filter_type_by_extensions_Swapped(t, extension_set) ==
  LET KeepRef(eb) == KeepStructRef(eb, extension_set)
  IN IF t.kind = "Struct"
       THEN [t EXCEPT !.extendedby = SelectSeq(t.structextends, KeepRef),
                      !.structextends = SelectSeq(t.extendedby, KeepRef)]
     ELSE IF t.kind = "Enum"
       THEN [t EXCEPT !.values =
               Remove(@, {en \in DOMAIN t.values :
                            ~KeepEnumValue(t.values[en], extension_set)})]
     ELSE t

\* Registry.__filter_type_by_extensions: t is modified in place and returned.
filter_type_by_extensions(t, extension_set) ==
  LET KeepRef(eb) == KeepStructRef(eb, extension_set)
  IN IF t.kind = "Struct"
       THEN [t EXCEPT !.extendedby = SelectSeq(t.extendedby, KeepRef),
                      !.structextends = SelectSeq(t.structextends, KeepRef)]
     ELSE IF t.kind = "Enum"
       THEN [t EXCEPT !.values =
               Remove(@, {en \in DOMAIN t.values :
                            ~KeepEnumValue(t.values[en], extension_set)})]
     ELSE t

\* Mutant of KeepEntry: an entry without extensions stays whatever the
\* authors are.
KeepEntry_CoreAlways(exts, filtered_set, extension_authors) ==
  IF Len(exts) > 0
    THEN filtered_set \cap Range(exts) # {}
    ELSE TRUE

\* The test of the type and command loops: the entry with this extensions
\* list stays in its dictionary.
KeepEntry(exts, filtered_set, extension_authors) ==
  IF Len(exts) > 0
    THEN filtered_set \cap Range(exts) # {}
    ELSE extension_authors.none \/ "" \in extension_authors.names

\* Registry.__filter_registry on the dictionaries reg with the arguments a.
\* The Type objects that stay are modified in place, so the heap is part of
\* the result; the extensions list of an object is never modified.
filter_registry(reg, a) ==
  LET filtered_set == FilteredSet(reg.extensions, a)
      Selected(k) == k \in filtered_set
      KeepType(k) == KeepEntry(typeObj[k].extensions, filtered_set, a.authors)
      KeepCommand(e) ==
        KeepEntry(cmdObj[e.cmd].extensions, filtered_set, a.authors)
  IN [extensions |-> SelectSeq(reg.extensions, Selected),
      platforms |-> [k \in (DOMAIN reg.platforms) \cap a.platforms |->
                       reg.platforms[k]],
      types |-> SelectSeq(reg.types, KeepType),
      commands |-> SelectSeq(reg.commands, KeepCommand),
      typeObj |-> [n \in DOMAIN reg.typeObj |->
                     IF n \in Range(reg.types) /\ KeepType(n)
                       THEN filter_type_by_extensions(reg.typeObj[n],
                                                      filtered_set)
                       ELSE reg.typeObj[n]]]

\* self.platforms[''] = None
NonePlatform == [valid |-> FALSE, name |-> "", extensions |-> <<>>,
                 commands |-> <<>>, types |-> <<>>]

ListedSets == {s \in SUBSET Range(ExtNames) : Cardinality(s) <= MaxListed}

\* Registry.__init__ from the reading of its arguments to the call of
\* __filter_registry.  __parse reads none of the arguments, so they are drawn
\* here, where they are first read: platforms=None becomes every platform of
\* the document, the core platform's placeholder is entered when '' is
\* requested, and the allowed and blocked names become Extension objects.
Registry_filter ==
  /\ pc = "filter"
  /\ \E p \in PlatformArgs, au \in AuthorArgs, su \in SupportedArgs,
        al \in ListedSets, bl \in ListedSets :
       LET a == [platforms |-> IF p.none
                                 THEN {""} \cup Range(root.platforms)
                                 ELSE p.names,
                 authors |-> au, supported |-> su,
                 allowed |-> al, blocked |-> bl]
           parsed == [Registry EXCEPT !.platforms =
                        IF "" \in a.platforms
                          THEN Put(platforms, "", NonePlatform)
                          ELSE platforms]
           r == filter_registry(parsed, a)
       IN /\ args' = a
          /\ extensions' = r.extensions
          /\ platforms' = r.platforms
          /\ types' = r.types
          /\ commands' = r.commands
          /\ typeObj' = r.typeObj
  /\ pc' = "core"
  /\ UNCHANGED <<root, cmdObj, extObj>>

\* "Add the default non-platform specific platform": Platform(self, None)
\* on the filtered dictionaries, when '' is requested.
Registry_core_platform ==
  /\ pc = "core"
  /\ platforms' = IF "" \in args.platforms
                    THEN Put(platforms, "", CorePlatform(Registry))
                    ELSE platforms
  /\ pc' = "done"
  /\ UNCHANGED <<root, typeObj, cmdObj, extObj, types, commands, extensions,
                 args>>

Next ==
  \/ parse_basetypes
  \/ parse_enums
  \/ parse_types
  \/ parse_commands
  \/ Extension_init
  \/ parse_features
  \/ parse_platforms
  \/ Registry_filter
  \/ Registry_core_platform

Spec == Init /\ [][Next]_vars

(* ---------------------------------------------------------------------- *)
(* What the document held, read back from root and from the heap.          *)
(* ---------------------------------------------------------------------- *)
Filtered == pc \in {"core", "done"}
Done == pc = "done"

ParsedExtensions == [i \in DOMAIN root.extensions |-> root.extensions[i].name]
ParsedTypes == <<"string", EnumName>> \o StructNames
ParsedCommands == ParseCommandElements(<<>>, root.commands)
CommandKeys == {e.key : e \in Range(commands)}

\* The extensions whose <require> holds an <enum extends=...> of this name.
Contributors(v) ==
  {x.name : x \in {e \in Range(root.extensions) : v \in Range(e.enums)}}

CoreAccepted == args.authors.none \/ "" \in args.authors.names

Structs(keys) == {k \in keys : typeObj[k].kind = "Struct"}
Enums(keys) == {k \in keys : typeObj[k].kind = "Enum"}

(* ---------------------------------------------------------------------- *)
(* C1: after construction a parsed type or command is in registry.types /  *)
(* registry.commands iff its extensions list shares an extension with the  *)
(* selected set, or the list is empty and authors is None or contains ''.  *)
(* ---------------------------------------------------------------------- *)
C1_Kept(exts) ==
  \/ Range(exts) \cap Range(extensions) # {}
  \/ exts = <<>> /\ CoreAccepted

C1_EntryPresentIffSelectedOrCore ==
  Filtered =>
    /\ \A t \in DOMAIN typeObj :
         (t \in Range(types)) <=> C1_Kept(typeObj[t].extensions)
    /\ \A e \in Range(ParsedCommands) :
         (e \in Range(commands)) <=> C1_Kept(cmdObj[e.cmd].extensions)

\* '' is left out of authors: the core types are dropped, a type tagged by
\* a selected extension is kept and one tagged by an unselected one dropped.
C1_Witness ==
  /\ Done
  /\ ~CoreAccepted
  /\ "string" \notin Range(types)
  /\ \E t \in DOMAIN typeObj :
       typeObj[t].extensions # <<>> /\ t \notin Range(types)
  /\ \E t \in Range(types) : typeObj[t].extensions # <<>>
  /\ CommandKeys = {}

C3_Matching ==
  Range(select_extensions(ParsedExtensions, args.platforms, args.authors,
                          args.supported))

C3_AllowedUnionMinusBlocked ==
  Filtered =>
    /\ Range(extensions) = (C3_Matching \cup args.allowed) \ args.blocked
    /\ Range(extensions) \cap args.blocked = {}
    /\ \A x \in args.allowed \ args.blocked :
         /\ x \in Range(extensions)
         /\ Range(extObj[x].types) \subseteq Range(types)
         /\ Range(extObj[x].commands) \subseteq CommandKeys

\* An allowed extension whose author and platform both fail the filters is
\* kept with the type it requires, and a matching extension is blocked.
C3_Witness ==
  /\ Done
  /\ \E x \in args.allowed \ args.blocked :
       /\ extObj[x].platform \notin args.platforms
       /\ ~AuthorAccepted(args.authors, extObj[x].author)
       /\ extObj[x].types # <<>>
       /\ x \in Range(extensions)
  /\ \E y \in args.blocked : y \in C3_Matching /\ y \notin Range(extensions)

(* ---------------------------------------------------------------------- *)
(* C4: in every parsed and in every filtered registry, for all structs S   *)
(* and T of registry.types, S is in T.extendedby iff T is in               *)
(* S.structextends.                                                        *)
(* ---------------------------------------------------------------------- *)
C4_ExtendedByMirrorsStructExtends ==
  pc \in {"commands", "extensions", "platforms", "filter", "core", "done"} =>
    \A S \in Structs(Range(types)), T \in Structs(Range(types)) :
      (S \in Range(typeObj[T].extendedby))
        <=> (T \in Range(typeObj[S].structextends))

\* A filtered registry in which a struct of an extension extends a core
\* struct, both present, while another extension was filtered out.
C4_Witness ==
  /\ Done
  /\ {"S1", "S2"} \subseteq Range(types)
  /\ typeObj["S2"].extensions # <<>>
  /\ typeObj["S1"].extensions = <<>>
  /\ "S2" \in Range(typeObj["S1"].extendedby)
  /\ "S1" \in Range(typeObj["S2"].structextends)
  /\ Range(extensions) # Range(ParsedExtensions)

(* ---------------------------------------------------------------------- *)
(* C5: after filtering, every struct in the extendedby or structextends    *)
(* list of a struct of registry.types is itself in registry.types.         *)
(* ---------------------------------------------------------------------- *)
C5_StructRefsSurvive ==
  Filtered =>
    \A S \in Structs(Range(types)) :
      Range(typeObj[S].extendedby) \cup Range(typeObj[S].structextends)
        \subseteq Range(types)

(* ---------------------------------------------------------------------- *)
(* C6: the filter keeps a value of an enum of registry.types iff the       *)
(* value's extensions list (its recorded provenance) is empty or holds an  *)
(* extension of the selected set; the values kept are the objects parsed.  *)
(* ---------------------------------------------------------------------- *)
C6_Step ==
  pc = "filter" =>
    \A e \in Enums(Range(types')) :
      /\ DOMAIN typeObj'[e].values =
           {v \in DOMAIN typeObj[e].values :
              \/ typeObj[e].values[v].extensions = <<>>
              \/ Range(typeObj[e].values[v].extensions)
                   \cap Range(extensions') # {}}
      /\ \A v \in DOMAIN typeObj'[e].values :
           typeObj'[e].values[v] = typeObj[e].values[v]

ArgumentChoices ==
  {[platforms |-> IF p.none THEN {""} \cup Range(PlatformNames) ELSE p.names,
    authors |-> au, supported |-> su, allowed |-> al, blocked |-> bl] :
     p \in PlatformArgs, au \in AuthorArgs, su \in SupportedArgs,
     al \in ListedSets, bl \in ListedSets}

C7_OnlyOf(v, X, surviving) ==
  /\ X \in Contributors(v)
  /\ v \notin Range(IntrinsicValues)
  /\ v \notin Range(root.features)
  /\ Contributors(v) \cap (surviving \ {X}) = {}

C7_RemovingExtensionRemovesOnlyItsValues ==
  pc = "filter" =>
    \A a \in ArgumentChoices :
      \A X \in FilteredSet(extensions, a) :
        LET with == filter_registry(Registry, a)
            without == filter_registry(Registry,
                                       [a EXCEPT !.blocked = @ \cup {X}])
        IN \A e \in Enums(Range(with.types) \cap Range(without.types)) :
             (DOMAIN with.typeObj[e].values)
                 \ (DOMAIN without.typeObj[e].values)
               = {v \in DOMAIN with.typeObj[e].values :
                    C7_OnlyOf(v, X, Range(with.extensions))}

(* ---------------------------------------------------------------------- *)
(* C8: filtering prunes a copy: the Enum object that held the parsed       *)
(* values before the filter holds the same values map after it.            *)
(* ---------------------------------------------------------------------- *)
C8_Step ==
  pc = "filter" =>
    \A e \in Enums(DOMAIN typeObj) :
      typeObj'[e].values = typeObj[e].values

C8_ParsedEnumObjectKeepsItsValues == [][C8_Step]_vars

(* ---------------------------------------------------------------------- *)
(* C9: applying __filter_registry again, with the same arguments, to the   *)
(* filtered registry changes none of the extensions, platforms, types and  *)
(* commands maps, no struct's lists and no enum's values.                  *)
(* ---------------------------------------------------------------------- *)
C9_FilterIsIdempotent ==
  Filtered => filter_registry(Registry, args) = Registry

\* The first application removed an extension, a struct, that struct from
\* the list of the struct that extends it, and an enum value.
C9_Witness ==
  /\ Done
  /\ Range(extensions) # Range(ParsedExtensions)
  /\ "S1" \notin Range(types)
  /\ "S2" \in Range(types)
  /\ root.structs["S2"] = <<"S1">>
  /\ typeObj["S2"].structextends = <<>>
  /\ EnumName \in Range(types)
  /\ Contributors("V1") # {}
  /\ "V1" \notin DOMAIN typeObj[EnumName].values

(* ---------------------------------------------------------------------- *)
(* C10: for every platform P of registry.platforms after construction,     *)
(* every key of P.extensions, P.types and P.commands is a key of           *)
(* registry.extensions, registry.types and registry.commands.              *)
(* ---------------------------------------------------------------------- *)
C10_PostFilter(P) ==
  /\ Range(P.extensions) \subseteq Range(extensions)
  /\ Range(P.types) \subseteq Range(types)
  /\ Range(P.commands) \subseteq Range(commands)

C10_EveryPlatformViewIsPostFilter ==
  Done => \A k \in DOMAIN platforms : C10_PostFilter(platforms[k])

\* C10 as amended: the core platform's views are post-filter; a named
\* platform's views are those of the parse, taken before the filter from
\* the extensions of that platform and the types and commands they tag.
C10_ParseTime(P) ==
  /\ \A x \in Range(P.extensions) :
       x \in Range(ParsedExtensions) /\ extObj[x].platform = P.name
  /\ \A t \in Range(P.types) :
       /\ t \in Range(ParsedTypes)
       /\ Range(typeObj[t].extensions) \cap Range(P.extensions) # {}
  /\ \A e \in Range(P.commands) :
       /\ e \in Range(ParsedCommands)
       /\ Range(cmdObj[e.cmd].extensions) \cap Range(P.extensions) # {}

C10_CoreViewPostFilterNamedViewParseTime ==
  Done =>
    \A k \in DOMAIN platforms :
      /\ platforms[k].valid /\ platforms[k].name = k
      /\ IF k = "" THEN C10_PostFilter(platforms[k])
                   ELSE C10_ParseTime(platforms[k])

\* Both platforms are kept; the named one lists an extension and a type
\* the filter removed, the core one lists a type and an extension.
C10_Witness ==
  /\ Done
  /\ DOMAIN platforms = {"", "ggp"}
  /\ ~C10_PostFilter(platforms["ggp"])
  /\ platforms["ggp"].types # <<>>
  /\ platforms[""].extensions # <<>>
  /\ platforms[""].types # <<>>
  /\ Range(types) # Range(ParsedTypes)

(* ---------------------------------------------------------------------- *)
(* C11: when '' is requested, the core platform view holds every type and  *)
(* command of the registry whose extensions list is empty and every one    *)
(* tagged by an extension of the registry whose platform is '', and holds  *)
(* no type or command whose extensions all declare a non-empty platform.   *)
(* ---------------------------------------------------------------------- *)
C11_TaggedByCore(exts) ==
  \E x \in Range(exts) \cap Range(extensions) : extObj[x].platform = ""

C11_AllPlatformSpecific(exts) ==
  exts # <<>> /\ \A x \in Range(exts) : extObj[x].platform # ""

C11_CoreViewHoldsCoreAndUnplatformed ==
  (Done /\ "" \in args.platforms) =>
    LET P == platforms[""]
    IN /\ \A t \in Range(types) :
            (typeObj[t].extensions = <<>>
               \/ C11_TaggedByCore(typeObj[t].extensions))
              => t \in Range(P.types)
       /\ \A e \in Range(commands) :
            (cmdObj[e.cmd].extensions = <<>>
               \/ C11_TaggedByCore(cmdObj[e.cmd].extensions))
              => e \in Range(P.commands)
       /\ \A t \in Range(P.types) :
            ~C11_AllPlatformSpecific(typeObj[t].extensions)
       /\ \A e \in Range(P.commands) :
            ~C11_AllPlatformSpecific(cmdObj[e.cmd].extensions)

\* The core view holds an untagged type, a type of a surviving extension
\* without platform and a command, and leaves out a surviving type tagged
\* by a platform's extension only.
C11_Witness ==
  /\ Done
  /\ "" \in args.platforms
  /\ \E t \in Range(platforms[""].types) : typeObj[t].extensions = <<>>
  /\ \E t \in Range(platforms[""].types) :
       C11_TaggedByCore(typeObj[t].extensions)
  /\ \E t \in Range(types) :
       /\ C11_AllPlatformSpecific(typeObj[t].extensions)
       /\ t \notin Range(platforms[""].types)
  /\ platforms[""].commands # <<>>

(* ---------------------------------------------------------------------- *)
(* C13: after construction every key of registry.types, commands,          *)
(* extensions and platforms is the name of its entry, unless it is the key *)
(* of a command alias, which holds the aliased Command object; and the     *)
(* name of every stored entry is a key of the same map holding that entry. *)
(* A Type, Command or Extension object is identified by its name here, so  *)
(* "the same object" is "the same identifier".                             *)
(* ---------------------------------------------------------------------- *)
C13_IsAliasKey(e) ==
  \E ce \in Range(root.commands) :
    /\ ce.name = e.key
    /\ ce.alias # ""
    /\ e.cmd = CommandOf(ParsedCommands, ce.alias)

C13_KeysAreNamesAndNamesAreKeys ==
  Done =>
    /\ \A e \in Range(commands) :
         /\ e.cmd = e.key \/ C13_IsAliasKey(e)
         /\ [key |-> e.cmd, cmd |-> e.cmd] \in Range(commands)
    /\ Cardinality(CommandKeys) = Len(commands)
    /\ \A k \in Range(extensions) : extObj[k].name = k
    /\ Cardinality(Range(extensions)) = Len(extensions)
    /\ \A k \in Range(types) : k \in DOMAIN typeObj
    /\ Cardinality(Range(types)) = Len(types)
    /\ \A k \in DOMAIN platforms :
         platforms[k].valid /\ platforms[k].name = k

\* The alias key and the canonical key both survive a filter that removed
\* a type; the core and a named platform, and an extension, are present.
C13_Witness ==
  /\ Done
  /\ \E e \in Range(commands) : e.key # e.cmd
  /\ \E e \in Range(commands) : cmdObj[e.cmd].extensions # <<>>
  /\ DOMAIN platforms = {"", "ggp"}
  /\ extensions # <<>>
  /\ Range(types) # Range(ParsedTypes)

(* ====================================================================== *)
(* Declarations: struct members, command parameters and handles.           *)
(*                                                                         *)
(* A second family of documents, loaded by the same constructor: a few     *)
(* base types, the handles with their parent attributes, one struct with   *)
(* its members and one command with its parameters.  The declarator text   *)
(* of a member is kept as the sequence of the lexemes the tokenizer's      *)
(* regular expression steps over ('struct', 'const', '*', '[' N ']'), a    *)
(* len or altlen attribute as the sequence of its names and commas.  Bit   *)
(* fields (':' N) are not among these declarators.                         *)
(* ====================================================================== *)
\* An XML attribute: absent (get() returns None) or its text.
Absent == [none |-> TRUE, text |-> <<>>]
Attr(text) == [none |-> FALSE, text |-> text]

\* TypeRef.__init__: a placeholder for the type of this name.
TypeRef(name) == [kind |-> "TypeRef", ref |-> name]
\* A reference to the object registry.types[name] (what TypeRefs become).
ObjectRef(name) == [kind |-> "Object", name |-> name]
\* Python's None where an object is expected.
None == [kind |-> "None"]
\* The value of an expression that raised.
KeyError == [kind |-> "KeyError"]

\* TypeModifier.__init__ and its subclasses NextPtr, Pointer, DynamicArray
\* and FixedArray (kind is the class; length is Absent for the first two).
TypeModifier(kind, t, is_const, length) ==
  [kind |-> kind, base_type |-> t, is_const |-> is_const, length |-> length]

Modifiers == {"NextPtr", "Pointer", "DynamicArray", "FixedArray"}

\* Type.name and TypeModifier.name.
RECURSIVE TypeName(_)
TypeName(t) ==
  CASE t.kind = "TypeRef" -> t.ref
    [] t.kind = "Object" -> t.name
    [] t.kind \in Modifiers ->
         (IF t.is_const THEN "Const" ELSE "") \o t.kind \o "("
           \o TypeName(t.base_type) \o ")"

\* _PointerLevel.
PointerLevel(is_const, is_fixed_array, length) ==
  [is_const |-> is_const, is_fixed_array |-> is_fixed_array,
   length |-> length]

\* str.split(sep).
RECURSIVE split(_, _)
split(s, sep) ==
  IF \A i \in DOMAIN s : s[i] # sep THEN <<s>>
  ELSE LET i == CHOOSE i \in DOMAIN s :
                  s[i] = sep /\ \A j \in 1..(i - 1) : s[j] # sep
       IN <<SubSeq(s, 1, i - 1)>> \o split(SubSeq(s, i + 1, Len(s)), sep)

\* Mutant of TokenLoop: a '*' leaves the pending const as it is.
RECURSIVE TokenLoop_ConstKept(_, _, _)
TokenLoop_ConstKept(type_str, is_const, pointer_levels) ==
  IF type_str = <<>> THEN pointer_levels
  ELSE LET tok == Head(type_str)
           rest == Tail(type_str)
       IN CASE tok = "struct" ->
                 TokenLoop_ConstKept(rest, is_const, pointer_levels)
            [] tok = "const" -> TokenLoop_ConstKept(rest, TRUE, pointer_levels)
            [] tok = "*" ->
                 TokenLoop_ConstKept(rest, is_const,
                           Append(pointer_levels,
                                  PointerLevel(is_const, FALSE, Absent)))
            [] tok = "[" ->
                 TokenLoop_ConstKept(SubSeq(rest, 3, Len(rest)), is_const,
                           Append(pointer_levels,
                                  PointerLevel(is_const, TRUE,
                                               Attr(<<rest[1]>>))))

\* The while loop of _parse_type_modifiers over the declarator text.
RECURSIVE TokenLoop(_, _, _)
TokenLoop(type_str, is_const, pointer_levels) ==
  IF type_str = <<>> THEN pointer_levels
  ELSE LET tok == Head(type_str)
           rest == Tail(type_str)
       IN CASE tok = "struct" -> TokenLoop(rest, is_const, pointer_levels)
            [] tok = "const" -> TokenLoop(rest, TRUE, pointer_levels)
            [] tok = "*" ->
                 TokenLoop(rest, FALSE,
                           Append(pointer_levels,
                                  PointerLevel(is_const, FALSE, Absent)))
            [] tok = "[" ->
                 TokenLoop(SubSeq(rest, 3, Len(rest)), is_const,
                           Append(pointer_levels,
                                  PointerLevel(is_const, TRUE,
                                               Attr(<<rest[1]>>))))

\* _parse_type_modifiers: the pointer levels, then the dynamic lengths of
\* altlen (or of len) assigned to the first levels.  raised: the assert on
\* a fixed array level failed or there are more lengths than levels.
parse_type_modifiers(me) ==
  LET pointer_levels == TokenLoop(me.type_str, FALSE, <<>>)
      len_str == IF me.altlen.none THEN me.len ELSE me.altlen
      dynamic_lengths == IF len_str.none THEN <<>>
                         ELSE split(len_str.text, ",")
  IN IF \E i \in DOMAIN dynamic_lengths :
          i > Len(pointer_levels) \/ pointer_levels[i].is_fixed_array
       THEN [raised |-> TRUE, pointer_levels |-> <<>>]
       ELSE [raised |-> FALSE,
             pointer_levels |->
               [i \in DOMAIN pointer_levels |->
                  IF i <= Len(dynamic_lengths)
                    THEN [pointer_levels[i] EXCEPT
                            !.length = Attr(dynamic_lengths[i])]
                    ELSE pointer_levels[i]]]

\* The loop of parse_parameter_or_member that wraps t in the levels
\* levels[1..n], the last one first.
RECURSIVE WrapLevels(_, _, _, _)
WrapLevels(t, levels, n, name) ==
  IF n = 0 THEN t
  ELSE LET ptr == levels[n]
           wrapped ==
             IF ptr.is_fixed_array
               THEN TypeModifier("FixedArray", t, ptr.is_const, ptr.length)
             ELSE IF ~ptr.length.none
               THEN IF ptr.length.text = <<"null-terminated">>
                      THEN TypeRef("string")
                      ELSE TypeModifier("DynamicArray", t, ptr.is_const,
                                        ptr.length)
             ELSE IF TypeName(t) = "void" /\ name = "pNext"
               THEN TypeModifier("NextPtr", t, ptr.is_const, Absent)
             ELSE TypeModifier("Pointer", t, ptr.is_const, Absent)
       IN WrapLevels(wrapped, levels, n - 1, name)

\* Mutant of parse_parameter_or_member: the levels wrap the base type in
\* declaration order, so the last '*' is the outermost modifier.
RECURSIVE WrapLevelsForward(_, _, _, _)
WrapLevelsForward(t, levels, n, name) ==
  IF n > Len(levels) THEN t
  ELSE LET ptr == levels[n]
           wrapped ==
             IF ptr.is_fixed_array
               THEN TypeModifier("FixedArray", t, ptr.is_const, ptr.length)
             ELSE IF ~ptr.length.none
               THEN IF ptr.length.text = <<"null-terminated">>
                      THEN TypeRef("string")
                      ELSE TypeModifier("DynamicArray", t, ptr.is_const,
                                        ptr.length)
             ELSE IF TypeName(t) = "void" /\ name = "pNext"
               THEN TypeModifier("NextPtr", t, ptr.is_const, Absent)
             ELSE TypeModifier("Pointer", t, ptr.is_const, Absent)
       IN WrapLevelsForward(wrapped, levels, n + 1, name)

parse_parameter_or_member_Forward(me) ==
  LET parsed == parse_type_modifiers(me)
      pointer_levels == parsed.pointer_levels
      is_pointer == Len(pointer_levels) > 0
                      /\ ~pointer_levels[1].is_fixed_array
      is_const == Len(pointer_levels) > 0 /\ pointer_levels[1].is_const
  IN [raised |-> parsed.raised,
      name |-> me.name,
      type |-> WrapLevelsForward(TypeRef(me.type), pointer_levels, 1,
                                 me.name),
      is_output |-> is_pointer /\ ~is_const]

\* parse_parameter_or_member: the Field of a <member> or <param> element;
\* raised tells that the call ended with the exception of
\* _parse_type_modifiers instead.  (No type alias changes the base type
\* name: registry.aliases[n].name is n.)
parse_parameter_or_member(me) ==
  LET parsed == parse_type_modifiers(me)
      pointer_levels == parsed.pointer_levels
      is_pointer == Len(pointer_levels) > 0
                      /\ ~pointer_levels[1].is_fixed_array
      is_const == Len(pointer_levels) > 0 /\ pointer_levels[1].is_const
  IN [raised |-> parsed.raised,
      name |-> me.name,
      type |-> WrapLevels(TypeRef(me.type), pointer_levels,
                          Len(pointer_levels), me.name),
      is_output |-> is_pointer /\ ~is_const]

\* Registry.__resolve_typeref on the keys reg_types of registry.types.  A
\* reference that is already resolved is returned as it is: these documents
\* hold no alias through which a resolved struct would be entered again.
RECURSIVE resolve_typeref(_, _)
resolve_typeref(reg_types, t) ==
  CASE t.kind = "TypeRef" ->
         IF t.ref \in Range(reg_types) THEN ObjectRef(t.ref) ELSE KeyError
    [] t.kind = "Handle" ->
         IF t.parent.kind = "TypeRef"
           THEN IF t.parent.ref = ""
                  THEN [t EXCEPT !.parent = None]
                  ELSE [t EXCEPT
                          !.parent = resolve_typeref(reg_types, t.parent)]
           ELSE t
    [] t.kind \in {"DynamicArray", "FixedArray", "Pointer"} ->
         [t EXCEPT !.base_type = resolve_typeref(reg_types, t.base_type)]
    [] t.kind = "Struct" ->
         [t EXCEPT !.members =
            [i \in DOMAIN t.members |->
               [t.members[i] EXCEPT
                  !.type = resolve_typeref(reg_types, t.members[i].type)]]]
    [] t.kind = "TypeAlias" ->
         [t EXCEPT !.alias = resolve_typeref(reg_types, t.alias)]
    [] OTHER -> t

\* What a property or an expression evaluates to: a value, or an exception.
Returns(v) == [raised |-> "", value |-> v]
Raises(e) == [raised |-> e, value |-> FALSE]

\* Handle.__init__: the parent attribute ('' when absent) as a TypeRef.
NewHandle(parent) ==
  [kind |-> "Handle", extensions |-> <<>>, parent |-> TypeRef(parent)]

\* Mutant of is_instance_handle: without the test for VkDevice, the walk
\* goes on through the parents of VkDevice.
RECURSIVE is_instance_handle_NoDeviceCase(_, _, _)
is_instance_handle_NoDeviceCase(objs, h, depth) ==
  IF h = "VkInstance" THEN Returns(TRUE)
  ELSE IF h = "VkSwapchainKHR" THEN Returns(FALSE)
  ELSE IF objs[h].parent.kind # "Object"
    THEN Raises("AttributeError")
  ELSE IF objs[objs[h].parent.name].kind # "Handle"
    THEN Raises("AttributeError")
  ELSE IF depth = 0 THEN Raises("RecursionError")
  ELSE is_instance_handle_NoDeviceCase(objs, objs[h].parent.name, depth - 1)

\* Handle.is_instance_handle of the handle named h in the heap objs.  The
\* property calls itself on the parent: on None (or on a parent that is no
\* Handle) the attribute is missing, and on a cycle of parents the
\* interpreter's recursion limit ends the walk; depth is what is left of it.
RECURSIVE is_instance_handle(_, _, _)
is_instance_handle(objs, h, depth) ==
  IF h = "VkDevice" THEN Returns(FALSE)
  ELSE IF h = "VkInstance" THEN Returns(TRUE)
  ELSE IF h = "VkSwapchainKHR" THEN Returns(FALSE)
  ELSE IF objs[h].parent.kind # "Object"
    THEN Raises("AttributeError")
  ELSE IF objs[objs[h].parent.name].kind # "Handle"
    THEN Raises("AttributeError")
  ELSE IF depth = 0 THEN Raises("RecursionError")
  ELSE is_instance_handle(objs, objs[h].parent.name, depth - 1)

\* A recursion limit no chain of distinct objects of the heap reaches.
RecursionLimit(objs) == Cardinality(DOMAIN objs)

\* isinstance(t, Handle) for a resolved field type.
IsHandle(objs, t) == t.kind = "Object" /\ objs[t.name].kind = "Handle"

\* The is_instance expression of Registry.__parse_commands.
Command_is_instance(objs, cmd) ==
  IF cmd.name = "vkCreateInstance" THEN Returns(TRUE)
  ELSE IF cmd.parameters = <<>> THEN Raises("IndexError")
  ELSE IF IsHandle(objs, cmd.parameters[1].type)
    THEN is_instance_handle(objs, cmd.parameters[1].type.name,
                            RecursionLimit(objs))
  ELSE Returns(FALSE)

\* Struct.__init__ with its members.
NewStructWithMembers(members) ==
  [kind |-> "Struct", extensions |-> <<>>, structextends |-> <<>>,
   extendedby |-> <<>>, values |-> EmptyMap, members |-> members]

\* Command.__init__ with its parameters.
NewCommandWithParameters(name, parameters) ==
  [name |-> name, parameters |-> parameters, is_instance |-> FALSE,
   extensions |-> <<>>, feature |-> ""]

(* ---------------------------------------------------------------------- *)
(* The documents.                                                          *)
(* ---------------------------------------------------------------------- *)
\* Largest number of <param> elements of the command of a handle document.
MaxParams == 2

\* 'string' and the <type name=.../> elements without a category.
DeclBaseTypes == <<"string", "void", "char", "uint32_t">>
DeclStructName == "S1"

FieldNames == {"pNext", "pData"}
FieldTypes == {"void", "char", "S1"}
Declarators ==
  { <<>>,
    <<"*">>,
    <<"const", "*">>,
    <<"const", "*", "const", "*">>,
    <<"*", "const", "*">>,
    <<"*", "*">>,
    <<"const", "*", "*">>,
    <<"[", "4", "]">>,
    <<"const", "struct", "*">> }
LenAttributes ==
  { Absent,
    Attr(<<"count">>),
    Attr(<<"null-terminated">>),
    Attr(<<"count", ",", "null-terminated">>),
    Attr(<<"count", ",", "stride">>) }
AltLenAttributes == { Absent, Attr(<<"size">>) }

\* <member> and <param> elements.
FieldElements ==
  {[name |-> n, type |-> b, type_str |-> d, len |-> l, altlen |-> a] :
     n \in FieldNames, b \in FieldTypes, d \in Declarators,
     l \in LenAttributes, a \in AltLenAttributes}

\* A <param> of a plain type.
PlainParam(type) ==
  [name |-> "x", type |-> type, type_str |-> <<>>, len |-> Absent,
   altlen |-> Absent]

HandleNames ==
  <<"VkInstance", "VkPhysicalDevice", "VkDevice", "VkSurfaceKHR",
    "VkSwapchainKHR", "VkCommandPool">>

\* <type category="handle" parent="..."> sections: name -> parent attribute.
HandleSections ==
  {[VkInstance |-> "", VkPhysicalDevice |-> a, VkDevice |-> b,
    VkSurfaceKHR |-> c, VkSwapchainKHR |-> d, VkCommandPool |-> e] :
     a \in {"VkInstance", ""},
     b \in {"VkPhysicalDevice", ""},
     c \in {"VkInstance", "VkDevice", "VkSurfaceKHR"},
     d \in {"VkSurfaceKHR", "VkDevice"},
     e \in {"VkDevice", "VkSwapchainKHR", "VkPhysicalDevice"}}

ParamTypes == {"uint32_t", "VkPhysicalDevice", "VkCommandPool", "VkSurfaceKHR"}
ParamLists ==
  UNION {[1..n -> {PlainParam(t) : t \in ParamTypes}] : n \in 1..MaxParams}
CommandNames == {"vkCreateInstance", "vkGetProperties"}

\* The state before __parse_types: the base types are in the registry.
DeclInit(documents) ==
  /\ pc = "decl_types"
  /\ root \in documents
  /\ typeObj = [n \in Range(DeclBaseTypes) |-> NewType("BaseType")]
  /\ types = DeclBaseTypes
  /\ cmdObj = EmptyMap
  /\ extObj = EmptyMap
  /\ commands = <<>>
  /\ extensions = <<>>
  /\ platforms = EmptyMap
  /\ args = NoArgs

\* One declaration, as a member of the struct or as the parameter of the
\* command.
FieldInit ==
  DeclInit(
    {[handles |-> EmptyMap, members |-> <<me>>,
      command |-> [name |-> "vkGetProperties",
                   params |-> <<PlainParam("uint32_t")>>]] :
       me \in FieldElements}
    \cup
    {[handles |-> EmptyMap, members |-> <<>>,
      command |-> [name |-> "vkGetProperties", params |-> <<me>>]] :
       me \in FieldElements})

\* The handles and a command with parameters of plain types.
HandleInit ==
  DeclInit(
    {[handles |-> hs, members |-> <<>>,
      command |-> [name |-> n, params |-> ps]] :
       hs \in HandleSections, n \in CommandNames, ps \in ParamLists})

\* Registry.__parse_types for the handles and the struct of the document,
\* with the resolution of the TypeRefs of every type.  The constructor ends
\* with the exception when a declaration cannot be parsed or resolved.
Decl_parse_types ==
  /\ pc = "decl_types"
  /\ LET fields == [i \in DOMAIN root.members |->
                      parse_parameter_or_member(root.members[i])]
         handles == SelectSeq(HandleNames,
                              LAMBDA h : h \in DOMAIN root.handles)
         keys == types \o handles \o <<DeclStructName>>
         created == [n \in Range(keys) |->
                       IF n \in Range(types) THEN typeObj[n]
                       ELSE IF n = DeclStructName
                         THEN NewStructWithMembers(fields)
                       ELSE NewHandle(root.handles[n])]
         resolved == [n \in Range(keys) |-> resolve_typeref(keys, created[n])]
         failed ==
           \/ \E i \in DOMAIN fields : fields[i].raised
           \/ \E i \in DOMAIN fields :
                resolved[DeclStructName].members[i].type = KeyError
     IN IF failed
          THEN pc' = "failed" /\ UNCHANGED <<typeObj, types>>
          ELSE pc' = "decl_commands" /\ typeObj' = resolved /\ types' = keys
  /\ UNCHANGED <<root, cmdObj, extObj, commands, extensions, platforms, args>>

\* Registry.__parse_commands for the command of the document: the
\* Command, the resolution of its parameters' TypeRefs, and is_instance.
Decl_parse_commands ==
  /\ pc = "decl_commands"
  /\ LET ce == root.command
         fields == [i \in DOMAIN ce.params |->
                      parse_parameter_or_member(ce.params[i])]
         cmd == NewCommandWithParameters(ce.name,
                  [i \in DOMAIN fields |->
                     [fields[i] EXCEPT
                        !.type = resolve_typeref(types, fields[i].type)]])
         is_instance == Command_is_instance(typeObj, cmd)
         failed ==
           \/ \E i \in DOMAIN fields : fields[i].raised
           \/ \E i \in DOMAIN fields : cmd.parameters[i].type = KeyError
           \/ is_instance.raised # ""
     IN IF failed
          THEN pc' = "failed" /\ UNCHANGED <<cmdObj, commands>>
          ELSE /\ pc' = "decl_done"
               /\ cmdObj' = [n \in {ce.name} |->
                               [cmd EXCEPT !.is_instance = is_instance.value]]
               /\ commands' = <<[key |-> ce.name, cmd |-> ce.name]>>
  /\ UNCHANGED <<root, typeObj, extObj, types, extensions, platforms, args>>

DeclNext == Decl_parse_types \/ Decl_parse_commands

FieldSpec == FieldInit /\ [][DeclNext]_vars
HandleSpec == HandleInit /\ [][DeclNext]_vars

(* ---------------------------------------------------------------------- *)
(* The fields of a loaded document, each with the element it was parsed    *)
(* from.                                                                   *)
(* ---------------------------------------------------------------------- *)
DeclLoaded == pc = "decl_done"

LoadedFields ==
  {[field |-> typeObj[DeclStructName].members[i], me |-> root.members[i]] :
     i \in DOMAIN root.members}
  \cup
  {[field |-> cmdObj[root.command.name].parameters[i],
    me |-> root.command.params[i]] : i \in DOMAIN root.command.params}

Handles == {n \in Range(types) : typeObj[n].kind = "Handle"}

\* The modifiers of a type from the outermost inwards, and what they wrap.
RECURSIVE ModifierChain(_)
ModifierChain(t) ==
  IF t.kind \in Modifiers THEN <<t>> \o ModifierChain(t.base_type) ELSE <<>>

RECURSIVE InnermostType(_)
InnermostType(t) ==
  IF t.kind \in Modifiers THEN InnermostType(t.base_type) ELSE t

C19_OutputIffOutermostIsNonConstPointerOrArray ==
  DeclLoaded =>
    \A f \in LoadedFields :
      f.field.is_output <=>
        /\ f.field.type.kind \in {"Pointer", "DynamicArray"}
        /\ ~f.field.type.is_const

(* ---------------------------------------------------------------------- *)
(* C20: the comma-separated lengths of altlen (of len when altlen is       *)
(* absent) go in order to the pointer levels, the first to the outermost:  *)
(* a level with the length 'null-terminated' is replaced, with all it      *)
(* wraps, by the 'string' base type and the outer levels wrap that; a      *)
(* level with another length is a DynamicArray of that length.  So         *)
(* 'const char* const*' with len='count,null-terminated' is                *)
(* ConstDynamicArray(string) of length 'count'.                            *)
(* ---------------------------------------------------------------------- *)
C20_Lengths(me) ==
  IF ~me.altlen.none THEN split(me.altlen.text, ",")
  ELSE IF ~me.len.none THEN split(me.len.text, ",")
  ELSE <<>>

\* The number of '*' and '[' of the declarator.
C20_Levels(me) ==
  Cardinality({i \in DOMAIN me.type_str : me.type_str[i] \in {"*", "["}})

C20_Strings(me) ==
  {i \in DOMAIN C20_Lengths(me) : C20_Lengths(me)[i] = <<"null-terminated">>}

C20_FieldFollowsLengths(f) ==
  LET lengths == C20_Lengths(f.me)
      chain == ModifierChain(f.field.type)
      strings == C20_Strings(f.me)
  IN /\ IF strings = {}
          THEN /\ Len(chain) = C20_Levels(f.me)
               /\ TypeName(InnermostType(f.field.type)) = f.me.type
          ELSE /\ \E j \in strings :
                    /\ \A k \in strings : j <= k
                    /\ Len(chain) = j - 1
               /\ InnermostType(f.field.type) = ObjectRef("string")
     /\ \A i \in DOMAIN chain :
          IF i <= Len(lengths)
            THEN /\ chain[i].kind = "DynamicArray"
                 /\ chain[i].length = Attr(lengths[i])
            ELSE chain[i].kind # "DynamicArray"

C20_IsExample(me) ==
  /\ me.type = "char"
  /\ me.type_str = <<"const", "*", "const", "*">>
  /\ me.len = Attr(<<"count", ",", "null-terminated">>)
  /\ me.altlen = Absent

C20_LengthsGoToLevelsOutermostFirst ==
  DeclLoaded =>
    \A f \in LoadedFields :
      /\ C20_FieldFollowsLengths(f)
      /\ C20_IsExample(f.me) =>
           /\ TypeName(f.field.type) = "ConstDynamicArray(string)"
           /\ f.field.type.length = Attr(<<"count">>)

\* The example of the claim is loaded as a struct member.
C20_Witness ==
  /\ DeclLoaded
  /\ \E i \in DOMAIN root.members :
       /\ C20_IsExample(root.members[i])
       /\ typeObj[DeclStructName].members[i].type.kind = "DynamicArray"
       /\ typeObj[DeclStructName].members[i].type.base_type
            = ObjectRef("string")

(* ---------------------------------------------------------------------- *)
(* C14: for every handle H of a loaded registry, H.is_instance_handle is   *)
(* true iff following parent links from H reaches VkInstance, except that  *)
(* VkSwapchainKHR is a device handle whatever its parent.                  *)
(* ---------------------------------------------------------------------- *)
\* The handle n parent links above h ('' beyond a handle without parent).
RECURSIVE C14_Up(_, _)
C14_Up(h, n) ==
  IF n = 0 THEN h
  ELSE LET below == C14_Up(h, n - 1)
       IN IF below = "" THEN ""
          ELSE IF typeObj[below].parent.kind = "Object"
            THEN typeObj[below].parent.name
          ELSE ""

C14_ReachesInstance(h) ==
  \E n \in 0..Cardinality(Handles) : C14_Up(h, n) = "VkInstance"

C14_IsInstanceHandle(h) ==
  is_instance_handle(typeObj, h, RecursionLimit(typeObj))

C14_InstanceHandleIffChainReachesInstance ==
  DeclLoaded =>
    \A h \in Handles :
      (C14_IsInstanceHandle(h) = Returns(TRUE))
        <=> (h # "VkSwapchainKHR" /\ C14_ReachesInstance(h))

\* C14 as amended: the walk along the parent links ends at the first of
\* VkInstance, VkDevice and VkSwapchainKHR it meets, and the property is
\* true iff that is VkInstance, false iff it is one of the other two; when
\* the walk meets none of them (a handle without parent, a cycle of
\* parents) the property raises.
C14_Named == {"VkInstance", "VkDevice", "VkSwapchainKHR"}

C14_EndsAt(h, s) ==
  \E n \in 0..Cardinality(Handles) :
    /\ C14_Up(h, n) = s
    /\ \A m \in 0..(n - 1) : C14_Up(h, m) \notin C14_Named

C14_WalkEndsAtFirstNamedHandle ==
  DeclLoaded =>
    \A h \in Handles :
      LET r == C14_IsInstanceHandle(h)
      IN /\ (r = Returns(TRUE)) <=> C14_EndsAt(h, "VkInstance")
         /\ (r = Returns(FALSE))
              <=> (C14_EndsAt(h, "VkDevice")
                     \/ C14_EndsAt(h, "VkSwapchainKHR"))
         /\ (r.raised # "") <=> (\A s \in C14_Named : ~C14_EndsAt(h, s))

\* VkCommandPool is below VkDevice, whose parents lead on to VkInstance,
\* and is a device handle; VkSurfaceKHR is an instance handle.
C14_Witness ==
  /\ DeclLoaded
  /\ C14_ReachesInstance("VkCommandPool")
  /\ C14_Up("VkCommandPool", 1) = "VkDevice"
  /\ C14_IsInstanceHandle("VkCommandPool") = Returns(FALSE)
  /\ C14_IsInstanceHandle("VkSurfaceKHR") = Returns(TRUE)
  /\ C14_IsInstanceHandle("VkSwapchainKHR") = Returns(FALSE)

(* ---------------------------------------------------------------------- *)
(* C15: a command's is_instance is true iff the command is                 *)
(* vkCreateInstance or the first of its parameters whose type is a Handle  *)
(* (not necessarily parameter 0) is an instance handle.                    *)
(* ---------------------------------------------------------------------- *)
C15_FirstHandleParameterIsInstance(cmd) ==
  \E i \in DOMAIN cmd.parameters :
    /\ IsHandle(typeObj, cmd.parameters[i].type)
    /\ \A j \in 1..(i - 1) : ~IsHandle(typeObj, cmd.parameters[j].type)
    /\ C14_IsInstanceHandle(cmd.parameters[i].type.name) = Returns(TRUE)

C15_InstanceIffFirstHandleParameterIsInstance ==
  DeclLoaded =>
    \A e \in Range(commands) :
      cmdObj[e.cmd].is_instance
        <=> (cmdObj[e.cmd].name = "vkCreateInstance"
               \/ C15_FirstHandleParameterIsInstance(cmdObj[e.cmd]))

(* ====================================================================== *)
(* Aliases and enum values: the basetype typedefs, the alias= types and    *)
(* commands, the values of an enum with those an extension and a feature   *)
(* contribute, and the functions that follow aliases.  Numbers in the      *)
(* document are sequences of characters; every object of these documents   *)
(* has a name of its own, which identifies it in the heap.                 *)
(* ====================================================================== *)
\* A Python value of an EnumValue: an int, or the str that was not parsed.
PyInt(n) == [type |-> "int", v |-> n]
PyStr(s) == [type |-> "str", v |-> s]

\* A call that returns v, and a call whose loop ends on no iteration.
Terminates(v) == [diverges |-> FALSE, value |-> v]
Diverges == [diverges |-> TRUE, value |-> None]

\* The digit c in int(): its value, or -1 when it is no digit.
DigitValue(c) ==
  CASE c = "0" -> 0 [] c = "1" -> 1 [] c = "2" -> 2 [] c = "3" -> 3
    [] c = "4" -> 4 [] c = "5" -> 5 [] c = "6" -> 6 [] c = "7" -> 7
    [] c = "8" -> 8 [] c = "9" -> 9
    [] c \in {"a", "A"} -> 10 [] c \in {"b", "B"} -> 11
    [] c \in {"c", "C"} -> 12 [] c \in {"d", "D"} -> 13
    [] c \in {"e", "E"} -> 14 [] c \in {"f", "F"} -> 15
    [] OTHER -> -1

\* The digits s read in this base on top of acc; -1 when one is no digit
\* of the base.
RECURSIVE DigitsValue(_, _, _)
DigitsValue(s, base, acc) ==
  IF s = <<>> THEN acc
  ELSE LET d == DigitValue(Head(s))
       IN IF d < 0 \/ d >= base THEN -1
          ELSE DigitsValue(Tail(s), base, acc * base + d)

\* int(s, base=base) of a str without blanks and underscores: a sign, for
\* base 16 a 0x or 0X prefix, and at least one digit; ValueError otherwise.
int(s, base) ==
  LET signed == s # <<>> /\ Head(s) \in {"-", "+"}
      unsigned == IF signed THEN Tail(s) ELSE s
      prefixed == /\ base = 16
                  /\ Len(unsigned) >= 2
                  /\ unsigned[1] = "0"
                  /\ unsigned[2] \in {"x", "X"}
      digits == IF prefixed THEN SubSeq(unsigned, 3, Len(unsigned))
                ELSE unsigned
      n == IF digits = <<>> THEN -1 ELSE DigitsValue(digits, base, 0)
  IN IF n < 0 THEN Raises("ValueError")
     ELSE Returns(IF signed /\ Head(s) = "-" THEN -n ELSE n)

\* str_v.startswith("0x")
startswith0x(str_v) == Len(str_v) >= 2 /\ str_v[1] = "0" /\ str_v[2] = "x"

\* 1 << n: ValueError for a negative shift count.
ShiftOne(n) == IF n < 0 THEN Raises("ValueError") ELSE Returns(2 ^ n)

\* BaseType.__init__, TypeAlias.__init__ and EnumValue.__init__.
BaseType(name) ==
  [kind |-> "BaseType", name |-> name, extensions |-> <<>>,
   structextends |-> <<>>, extendedby |-> <<>>, values |-> EmptyMap]
TypeAlias(name, alias) ==
  [kind |-> "TypeAlias", name |-> name, extensions |-> <<>>, alias |-> alias]
EnumValue(name, value) ==
  [kind |-> "EnumValue", name |-> name, extensions |-> <<>>, value |-> value]
\* The name an enum value's alias attribute holds until the feature pass.
AliasName(text) == [kind |-> "str", text |-> text]

\* The body of the loop of Enum.__init__ for one <enum> element ee: the
\* value object, or the exception that ends the constructor.  A value that
\* int() or the shift rejects stays the str of the attribute.
Enum_value(ee) ==
  IF ~ee.alias.none
    THEN Returns(TypeAlias(ee.name, AliasName(ee.alias.text)))
  ELSE IF ~ee.bitpos.none
    THEN LET str_v == ee.bitpos.text
             n == int(str_v, IF startswith0x(str_v) THEN 16 ELSE 10)
             ev == IF n.raised # "" THEN n ELSE ShiftOne(n.value)
         IN Returns(EnumValue(ee.name,
                      IF ev.raised # "" THEN PyStr(str_v)
                      ELSE PyInt(ev.value)))
  ELSE IF ee.value.none THEN Raises("AttributeError")
  ELSE LET str_v == ee.value.text
           ev == int(str_v, IF startswith0x(str_v) THEN 16 ELSE 10)
       IN Returns(EnumValue(ee.name,
                    IF ev.raised # "" THEN PyStr(str_v)
                    ELSE PyInt(ev.value)))

\* The first value of an extension's block of enum values, and the size of
\* a block.
ExtBase == 1000000000
ExtBlock == 1000

\* Mutant of parse_enum_extend_value: the bit position of a bitmask enum is
\* looked at before the value attribute.
parse_enum_extend_value_BitposFirst(enum, ee, extnumber) ==
  IF ~ee.alias.none
    THEN Returns(TypeAlias(ee.name, AliasName(ee.alias.text)))
  ELSE IF enum.is_bitmask /\ ~ee.bitpos.none
    THEN LET n == int(ee.bitpos.text, 10)
             ev == IF n.raised # "" THEN n ELSE ShiftOne(n.value)
         IN IF ev.raised # "" THEN ev
            ELSE Returns(EnumValue(ee.name, PyInt(ev.value)))
  ELSE IF ~ee.value.none
    THEN LET n == int(ee.value.text, 10)
         IN IF n.raised # "" THEN n
            ELSE Returns(EnumValue(ee.name, PyInt(n.value)))
  ELSE IF enum.is_bitmask THEN Raises("TypeError")
  ELSE IF ee.offset.none THEN Raises("TypeError")
  ELSE LET n == int(ee.offset.text, 10)
       IN IF n.raised # "" THEN n
          ELSE Returns(EnumValue(ee.name,
                 PyInt(ExtBase + (extnumber - 1) * ExtBlock + n.value)))

\* parse_enum_extend for the element ee of the extension numbered
\* extnumber: the value object entered in enum.values, or the exception.
parse_enum_extend_value(enum, ee, extnumber) ==
  IF ~ee.alias.none
    THEN Returns(TypeAlias(ee.name, AliasName(ee.alias.text)))
  ELSE IF ~ee.value.none
    THEN LET n == int(ee.value.text, 10)
         IN IF n.raised # "" THEN n
            ELSE Returns(EnumValue(ee.name, PyInt(n.value)))
  ELSE IF enum.is_bitmask
    THEN IF ee.bitpos.none THEN Raises("TypeError")
         ELSE LET n == int(ee.bitpos.text, 10)
                  ev == IF n.raised # "" THEN n ELSE ShiftOne(n.value)
              IN IF ev.raised # "" THEN ev
                 ELSE Returns(EnumValue(ee.name, PyInt(ev.value)))
  ELSE IF ee.offset.none THEN Raises("TypeError")
  ELSE LET n == int(ee.offset.text, 10)
       IN IF n.raised # "" THEN n
          ELSE Returns(EnumValue(ee.name,
                 PyInt(ExtBase + (extnumber - 1) * ExtBlock + n.value)))

\* The object a reference held by an alias stands for, in the heap (the
\* types of the registry, or the values of an enum) it refers into.
Deref(heap, ref) == IF ref.kind = "Object" THEN heap[ref.name] ELSE ref

\* isinstance(v, TypeAlias) for an object of any class.
IsTypeAlias(v) == "kind" \in DOMAIN v /\ v.kind = "TypeAlias"

\* The while loop of TypeAlias.resolve_type and of is_base_type_alias from
\* the object ta on: the loop visits the same objects at every call, so it
\* never ends iff it comes to an alias it has visited (seen).
RECURSIVE WhileTypeAlias(_, _, _)
WhileTypeAlias(heap, ta, seen) ==
  IF ~IsTypeAlias(ta) THEN Terminates(ta)
  ELSE IF ta.name \in seen THEN Diverges
  ELSE WhileTypeAlias(heap, Deref(heap, ta.alias), seen \cup {ta.name})

\* TypeAlias.resolve_type of the alias ta.
resolve_type(heap, ta) == WhileTypeAlias(heap, ta, {})

\* TypeAlias.is_base_type_alias of the alias ta.
is_base_type_alias(heap, ta) ==
  LET alias == WhileTypeAlias(heap, Deref(heap, ta.alias), {})
  IN IF alias.diverges THEN Diverges
     ELSE Terminates(alias.value.kind = "BaseType")

\* Enum.get_integer_values of the enum.
get_integer_values(enum) ==
  LET Of(v) == IF v.kind = "EnumValue" THEN Terminates(v.value)
               ELSE LET r == resolve_type(enum.values, v)
                    IN IF r.diverges THEN Diverges
                       ELSE Terminates(r.value.value)
  IN IF \E k \in DOMAIN enum.values : Of(enum.values[k]).diverges
       THEN Diverges
       ELSE Terminates([n \in {enum.values[k].name : k \in DOMAIN enum.values}
                          |-> Of(CHOOSE v \in Range(enum.values) :
                                   v.name = n).value])

\* Mutant of resolve_aliases: the result keeps the keys of the dictionary.
resolve_aliases_KeyedByKey(heap, aliased, resolve_base_type_aliases) ==
  LET IsAlias(k) == IsTypeAlias(aliased[k])
      Base(k) == is_base_type_alias(heap, aliased[k])
      kept == {k \in DOMAIN aliased :
                 ~IsAlias(k) \/ (Base(k).value /\ ~resolve_base_type_aliases)}
  IN IF \E k \in DOMAIN aliased : IsAlias(k) /\ Base(k).diverges
       THEN Diverges
       ELSE Terminates([k \in kept |-> aliased[k]])

\* resolve_aliases(aliased, resolve_base_type_aliases) for a dictionary of
\* objects of the heap.  is_base_type_alias is evaluated for every alias of
\* the dictionary, whatever the flag.  Items with the same value.name hold
\* the same object, so the order of the items does not show in the result.
resolve_aliases(heap, aliased, resolve_base_type_aliases) ==
  LET IsAlias(k) == IsTypeAlias(aliased[k])
      Base(k) == is_base_type_alias(heap, aliased[k])
      kept == {k \in DOMAIN aliased :
                 ~IsAlias(k) \/ (Base(k).value /\ ~resolve_base_type_aliases)}
  IN IF \E k \in DOMAIN aliased : IsAlias(k) /\ Base(k).diverges
       THEN Diverges
       ELSE Terminates([n \in {aliased[k].name : k \in kept} |->
                          aliased[CHOOSE k \in kept : aliased[k].name = n]])

(* ---------------------------------------------------------------------- *)
(* The documents.                                                          *)
(* ---------------------------------------------------------------------- *)
\* <type name=.../> elements without a category.
PlainTypes == <<"void", "uint32_t">>
\* <type category="basetype"> elements: a typedef of the <type> it names,
\* or a type of its own.
TypedefNames == <<"VkFlags", "VkBool32">>
TypedefTargets ==
  {Absent, Attr("uint32_t"), Attr("VkFlags"), Attr("VkBool32"),
   Attr("VkMissing")}
BasetypeSections ==
  {<<[name |-> TypedefNames[1], type |-> a],
     [name |-> TypedefNames[2], type |-> b]>> :
     a \in TypedefTargets, b \in TypedefTargets}

\* <type category="struct"> elements, with or without alias.
StructElement(name) == [name |-> name, alias |-> Absent]
AliasElement(name, alias) == [name |-> name, alias |-> Attr(alias)]
TypeSections ==
  { <<StructElement("S1")>>,
    <<StructElement("S1"), AliasElement("S1KHR", "S1")>>,
    <<StructElement("S1"), AliasElement("S1KHR", "S1"),
      AliasElement("S1KHR2", "S1KHR")>>,
    <<StructElement("S1"), AliasElement("S1KHR", "VkBool32")>>,
    <<AliasElement("S1KHR", "S1"), StructElement("S1")>> }

\* <command> elements, with or without alias.
CommandSections ==
  { <<StructElement("vkCmd")>>,
    <<StructElement("vkCmd"), AliasElement("vkCmdKHR", "vkCmd")>>,
    <<AliasElement("vkCmdKHR", "vkCmd"), StructElement("vkCmd")>> }

\* The <enum> elements of <enums name="E1" type="enum">.
AliasEnumName == "E1"
ValueTexts ==
  { <<"7">>, <<"0", "x", "1", "F">>, <<"-", "1">>,
    <<"1", "0", "0", "0", ".", "0", "F">> }
BitposTexts == { <<"3">>, <<"0", "x", "4">> }
ValueNames == {"VA", "VB", "VC", "VZ"}
ValueElements(name) ==
  {[name |-> name, value |-> Attr(t), bitpos |-> Absent, alias |-> Absent] :
     t \in ValueTexts}
  \cup
  {[name |-> name, value |-> Absent, bitpos |-> Attr(t), alias |-> Absent] :
     t \in BitposTexts}
  \cup
  {[name |-> name, value |-> Absent, bitpos |-> Absent, alias |-> Attr(a)] :
     a \in ValueNames}
EnumSections ==
  {<<a, b>> : a \in ValueElements("VA"), b \in ValueElements("VB")}

\* <require>/<enum extends="E1"> elements of the extension and of the
\* feature; the feature's element may carry an extnumber.
NoExtend == [name |-> "VC", alias |-> Absent, value |-> Absent,
             bitpos |-> Absent, offset |-> Absent, extnumber |-> Absent]
ExtendElements ==
  { [NoExtend EXCEPT !.offset = Attr(<<"1">>)],
    [NoExtend EXCEPT !.value = Attr(<<"5">>)],
    [NoExtend EXCEPT !.bitpos = Attr(<<"2">>)],
    [NoExtend EXCEPT !.alias = Attr("VA")],
    [NoExtend EXCEPT !.alias = Attr("VC")] }
FeatureElements ==
  ExtendElements
    \cup {[NoExtend EXCEPT !.offset = Attr(<<"1">>),
                           !.extnumber = Attr(<<"3">>)]}
Contributions ==
  {[extension |-> <<>>, features |-> <<>>]}
  \cup {[extension |-> <<e>>, features |-> <<>>] : e \in ExtendElements}
  \cup {[extension |-> <<>>, features |-> <<e>>] : e \in FeatureElements}

\* The <require>/<type> and <require>/<command> names of the <extension>
\* element.
RequireNames(ts, cs) == [types |-> ts, commands |-> cs]
NoRequire == RequireNames(<<>>, <<>>)

\* The <extension> element of the document doc: number 2, selected by the
\* default arguments of the constructor when it is supported="vulkan".
AliasExtension(doc) ==
  [name |-> "VK_KHR_x", number |-> 2, platform |-> "", author |-> "KHR",
   supported |-> doc.supported, types |-> doc.require.types,
   commands |-> doc.require.commands, enums |-> doc.extension]

\* The default arguments of Registry.__init__.
DefaultArgs ==
  [platforms |-> {""},
   authors |-> [none |-> FALSE, names |-> {"", "KHR", "EXT"}],
   supported |-> vulkan, allowed |-> {}, blocked |-> {}]

\* The documents: every enum section with every contribution under one
\* type section, and every type section under one enum section.
AliasDocuments ==
  {[basetypes |-> <<[name |-> "VkFlags", type |-> Attr("uint32_t")],
                    [name |-> "VkBool32", type |-> Attr("VkFlags")]>>,
    types |-> <<StructElement("S1"), AliasElement("S1KHR", "S1")>>,
    commands |-> <<StructElement("vkCmd"),
                   AliasElement("vkCmdKHR", "vkCmd")>>,
    enums |-> es, extension |-> c.extension, features |-> c.features,
    require |-> NoRequire, supported |-> vulkan] :
     es \in EnumSections, c \in Contributions}
  \cup
  {[basetypes |-> bs, types |-> ts, commands |-> cs,
    enums |-> <<[name |-> "VA", value |-> Attr(<<"7">>), bitpos |-> Absent,
                 alias |-> Absent],
                [name |-> "VB", value |-> Absent, bitpos |-> Absent,
                 alias |-> Attr("VA")]>>,
    extension |-> <<>>, features |-> <<>>,
    require |-> NoRequire, supported |-> vulkan] :
     bs \in BasetypeSections, ts \in TypeSections, cs \in CommandSections}

\* Before Registry.__parse: the dictionaries are empty.
AliasInit ==
  /\ pc = "alias_basetypes"
  /\ root \in AliasDocuments
  /\ typeObj = EmptyMap
  /\ cmdObj = EmptyMap
  /\ extObj = EmptyMap
  /\ types = <<>>
  /\ commands = <<>>
  /\ extensions = <<>>
  /\ platforms = EmptyMap
  /\ args = NoArgs

(* ---------------------------------------------------------------------- *)
(* Registry.__init__ on these documents.                                   *)
(* ---------------------------------------------------------------------- *)
\* Registry.__parse_basetypes: 'string', the types without category, and
\* the basetype elements, a typedef as the alias of a TypeRef.
Alias_parse_basetypes ==
  /\ pc = "alias_basetypes"
  /\ LET keys == <<"string">> \o PlainTypes
                   \o [i \in DOMAIN root.basetypes |-> root.basetypes[i].name]
         Element(n) == CHOOSE te \in Range(root.basetypes) : te.name = n
     IN /\ types' = keys
        /\ typeObj' =
             [n \in Range(keys) |->
                IF n = "string" \/ n \in Range(PlainTypes) THEN BaseType(n)
                ELSE IF Element(n).type.none THEN BaseType(n)
                ELSE TypeAlias(n, TypeRef(Element(n).type.text))]
  /\ pc' = "alias_enums"
  /\ UNCHANGED <<root, cmdObj, extObj, commands, extensions, platforms, args>>

\* Enum.__init__ for the <enums> element with these <enum> elements.
Enum_init(name, ees) ==
  LET made == [i \in DOMAIN ees |-> Enum_value(ees[i])]
      Index(n) == CHOOSE i \in DOMAIN ees : ees[i].name = n
  IN IF \E i \in DOMAIN ees : made[i].raised # ""
       THEN Raises("AttributeError")
       ELSE Returns(
         [kind |-> "Enum", name |-> name, extensions |-> <<>>,
          structextends |-> <<>>, extendedby |-> <<>>,
          is_bitmask |-> \E i \in DOMAIN ees :
                           ees[i].alias.none /\ ~ees[i].bitpos.none,
          values |-> [n \in {ees[i].name : i \in DOMAIN ees} |->
                        made[Index(n)].value]])

\* Registry.__parse_enums: the <enums type="enum"> element.
Alias_parse_enums ==
  /\ pc = "alias_enums"
  /\ LET e == Enum_init(AliasEnumName, root.enums)
     IN IF e.raised # ""
          THEN pc' = "failed" /\ UNCHANGED <<typeObj, types>>
          ELSE /\ pc' = "alias_types"
               /\ typeObj' = Put(typeObj, AliasEnumName, e.value)
               /\ types' = Append(types, AliasEnumName)
  /\ UNCHANGED <<root, cmdObj, extObj, commands, extensions, platforms, args>>

\* The first loop of Registry.__parse_types over the elements tes, from
\* the dictionary reg (keys and objs) on: an alias= element becomes the
\* TypeAlias of the object its alias names now, another one a Struct.
RECURSIVE ParseTypeElements(_, _)
ParseTypeElements(reg, tes) ==
  IF tes = <<>> \/ reg.raised # "" THEN reg
  ELSE LET te == Head(tes)
       IN IF te.alias.none
            THEN ParseTypeElements(
                   [reg EXCEPT
                      !.keys = Append(@, te.name),
                      !.objs = Put(@, te.name,
                                 NewStructWithMembers(<<>>)
                                   @@ [name |-> te.name])],
                   Tail(tes))
          ELSE IF te.alias.text \notin Range(reg.keys)
            THEN [reg EXCEPT !.raised = "KeyError"]
          ELSE ParseTypeElements(
                 [reg EXCEPT
                    !.keys = Append(@, te.name),
                    !.objs = Put(@, te.name,
                               TypeAlias(te.name, ObjectRef(te.alias.text)))],
                 Tail(tes))

\* Registry.__parse_types: the elements, then the resolution of the
\* TypeRefs of every type (the structs have no structextends).  The
\* registry's aliases dictionary is not part of the state.
Alias_parse_types ==
  /\ pc = "alias_types"
  /\ LET reg == ParseTypeElements(
                  [raised |-> "", keys |-> types, objs |-> typeObj],
                  root.types)
         resolved == [n \in DOMAIN reg.objs |->
                        resolve_typeref(reg.keys, reg.objs[n])]
         failed ==
           \/ reg.raised # ""
           \/ \E n \in DOMAIN resolved :
                resolved[n].kind = "TypeAlias" /\ resolved[n].alias = KeyError
     IN IF failed
          THEN pc' = "failed" /\ UNCHANGED <<typeObj, types>>
          ELSE pc' = "alias_commands" /\ typeObj' = resolved
                 /\ types' = reg.keys
  /\ UNCHANGED <<root, cmdObj, extObj, commands, extensions, platforms, args>>

\* The first loop of Registry.__parse_commands over the elements ces: an
\* alias= element enters the object of the command it names under its own
\* name, another one a Command with one uint32_t parameter.
RECURSIVE ParseAliasCommands(_, _)
ParseAliasCommands(reg, ces) ==
  IF ces = <<>> \/ reg.raised # "" THEN reg
  ELSE LET ce == Head(ces)
           Named(e) == e.key = ce.alias.text
       IN IF ce.alias.none
            THEN ParseAliasCommands(
                   [reg EXCEPT
                      !.dict = Append(@, [key |-> ce.name, cmd |-> ce.name]),
                      !.objs = Put(@, ce.name,
                                 NewCommandWithParameters(ce.name,
                                   <<parse_parameter_or_member(
                                       PlainParam("uint32_t"))>>))],
                   Tail(ces))
          ELSE IF SelectSeq(reg.dict, Named) = <<>>
            THEN [reg EXCEPT !.raised = "KeyError"]
          ELSE ParseAliasCommands(
                 [reg EXCEPT
                    !.dict = Append(@, [key |-> ce.name,
                                        cmd |-> SelectSeq(@, Named)[1].cmd])],
                 Tail(ces))

\* Registry.__parse_commands: the elements, then the resolution of the
\* parameters' TypeRefs and is_instance for every command.
Alias_parse_commands ==
  /\ pc = "alias_commands"
  /\ LET reg == ParseAliasCommands(
                  [raised |-> "", dict |-> commands, objs |-> cmdObj],
                  root.commands)
         Resolved(cmd) ==
           [cmd EXCEPT !.parameters =
              [i \in DOMAIN cmd.parameters |->
                 [cmd.parameters[i] EXCEPT
                    !.type = resolve_typeref(types, cmd.parameters[i].type)]]]
     IN IF reg.raised # ""
          THEN pc' = "failed" /\ UNCHANGED <<cmdObj, commands>>
          ELSE /\ pc' = "alias_extensions"
               /\ commands' = reg.dict
               /\ cmdObj' =
                    [n \in DOMAIN reg.objs |->
                       [Resolved(reg.objs[n]) EXCEPT !.is_instance =
                          Command_is_instance(typeObj,
                                              Resolved(reg.objs[n])).value]]
  /\ UNCHANGED <<root, typeObj, extObj, types, extensions, platforms, args>>

\* The loop over <require>/<enum extends> elements ees that calls
\* parse_enum_extend: each value enters enum.values under its name, with
\* the extension x (if any) appended to its extensions.
RECURSIVE ExtendEnumValues(_, _, _, _)
ExtendEnumValues(e, ees, x, number) ==
  IF ees = <<>> \/ e.raised # "" THEN e
  ELSE LET ee == Head(ees)
           extnumber == IF x # "" THEN Returns(number)
                        ELSE IF ee.extnumber.none THEN Returns(0)
                        ELSE int(ee.extnumber.text, 10)
           ev == IF extnumber.raised # "" THEN extnumber
                 ELSE parse_enum_extend_value(e.value, ee, extnumber.value)
       IN IF ev.raised # "" THEN Raises(ev.raised)
          ELSE ExtendEnumValues(
                 Returns([e.value EXCEPT !.values =
                    Put(@, ee.name,
                        [ev.value EXCEPT !.extensions =
                           IF x # "" THEN Append(@, x) ELSE @])]),
                 Tail(ees), x, number)

\* Registry.__parse_extensions: Extension.__init__ for the <extension>
\* element.  The extension appends itself to the extensions list of
\* registry.types[t] for every required type name and of
\* registry.commands[c] for every required command name (a name that is no
\* key raises KeyError), then the enum values it contributes are entered.
Alias_parse_extensions ==
  /\ pc = "alias_extensions"
  /\ LET en == AliasExtension(root)
         missing ==
           \/ \E t \in Range(en.types) : t \notin Range(types)
           \/ \E c \in Range(en.commands) :
                \A e \in Range(commands) : e.key # c
         tagged == TagObjects(typeObj, en.types, en.name)
         e == ExtendEnumValues(Returns(tagged[AliasEnumName]), en.enums,
                               en.name, en.number)
     IN IF missing \/ e.raised # ""
          THEN pc' = "failed"
                 /\ UNCHANGED <<typeObj, cmdObj, extObj, extensions>>
          ELSE /\ pc' = "alias_features"
               /\ typeObj' = [tagged EXCEPT ![AliasEnumName] = e.value]
               /\ cmdObj' = TagObjects(cmdObj,
                                       CommandObjects(commands, en.commands),
                                       en.name)
               /\ extObj' = Put(extObj, en.name, en)
               /\ extensions' = Append(extensions, en.name)
  /\ UNCHANGED <<root, types, commands, platforms, args>>

\* The last loop of Registry.__parse_features for one enum: every alias
\* value gets the value object its alias names in the same enum.
ResolveValueAliases(enum) ==
  IF \E n \in DOMAIN enum.values :
       /\ enum.values[n].kind = "TypeAlias"
       /\ enum.values[n].alias.text \notin DOMAIN enum.values
    THEN Raises("KeyError")
    ELSE Returns([enum EXCEPT !.values =
           [n \in DOMAIN enum.values |->
              IF enum.values[n].kind = "TypeAlias"
                THEN [enum.values[n] EXCEPT !.alias = ObjectRef(@.text)]
                ELSE enum.values[n]]])

\* Registry.__parse_features (the feature requires no command), followed
\* by __parse_platforms on a document without <platform> elements.
Alias_parse_features ==
  /\ pc = "alias_features"
  /\ LET e == ExtendEnumValues(Returns(typeObj[AliasEnumName]),
                               root.features, "", 0)
         r == IF e.raised # "" THEN e ELSE ResolveValueAliases(e.value)
     IN IF r.raised # ""
          THEN pc' = "failed" /\ UNCHANGED typeObj
          ELSE /\ pc' = "alias_filter"
               /\ typeObj' = [typeObj EXCEPT ![AliasEnumName] = r.value]
  /\ UNCHANGED <<root, cmdObj, extObj, types, commands, extensions,
                 platforms, args>>

\* The rest of Registry.__init__ with the default arguments: the filter,
\* and the core platform on the filtered dictionaries.
Alias_filter ==
  /\ pc = "alias_filter"
  /\ LET a == DefaultArgs
         parsed == [Registry EXCEPT !.platforms = Put(platforms, "",
                                                      NonePlatform)]
         r == filter_registry(parsed, a)
     IN /\ args' = a
        /\ extensions' = r.extensions
        /\ types' = r.types
        /\ commands' = r.commands
        /\ typeObj' = r.typeObj
        /\ platforms' = Put(r.platforms, "", CorePlatform(r))
  /\ pc' = "alias_done"
  /\ UNCHANGED <<root, cmdObj, extObj>>

AliasNext ==
  \/ Alias_parse_basetypes
  \/ Alias_parse_enums
  \/ Alias_parse_types
  \/ Alias_parse_commands
  \/ Alias_parse_extensions
  \/ Alias_parse_features
  \/ Alias_filter

AliasSpec == AliasInit /\ [][AliasNext]_vars

(* ---------------------------------------------------------------------- *)
(* The dictionaries of a registry loaded from one of these documents.      *)
(* ---------------------------------------------------------------------- *)
AliasLoaded == pc = "alias_done"

\* registry.types and registry.commands as dictionaries of objects.
TypesDict == [k \in Range(types) |-> typeObj[k]]
CommandsDict ==
  [k \in {commands[i].key : i \in DOMAIN commands} |->
     cmdObj[(CHOOSE e \in Range(commands) : e.key = k).cmd]]
LoadedEnums == {k \in Range(types) : typeObj[k].kind = "Enum"}

(* ---------------------------------------------------------------------- *)
(* C16: in a loaded registry, resolve_type() of every type alias of        *)
(* registry.types and of every enum-value alias terminates and returns an  *)
(* object that is no alias (the alias graph is acyclic).                   *)
(* ---------------------------------------------------------------------- *)
C16_Resolves(heap, ta) ==
  LET r == resolve_type(heap, ta)
  IN ~r.diverges /\ ~IsTypeAlias(r.value)

C16_ResolveTypeTerminates ==
  AliasLoaded =>
    /\ \A k \in Range(types) :
         IsTypeAlias(typeObj[k]) => C16_Resolves(typeObj, typeObj[k])
    /\ \A e \in LoadedEnums : \A n \in DOMAIN typeObj[e].values :
         IsTypeAlias(typeObj[e].values[n]) =>
           C16_Resolves(typeObj[e].values, typeObj[e].values[n])

(* ---------------------------------------------------------------------- *)
(* C17: for every enum of registry.types, every value of the dictionary    *)
(* that get_integer_values() returns is an integer.                        *)
(* ---------------------------------------------------------------------- *)
C17_IntegerValuesAreIntegers ==
  AliasLoaded =>
    \A e \in LoadedEnums :
      LET iv == get_integer_values(typeObj[e])
      IN ~iv.diverges =>
           \A n \in DOMAIN iv.value : iv.value[n].type = "int"

(* ---------------------------------------------------------------------- *)
(* C18: resolve_aliases is idempotent on the dictionaries of types, enum   *)
(* values and commands, for either value of resolve_base_type_aliases, and *)
(* its result holds, each under its own name, exactly the entries that are *)
(* no alias plus, when the flag is false, the aliases whose chain ends at  *)
(* a BaseType.                                                             *)
(* ---------------------------------------------------------------------- *)
\* The object n alias links away from v.
RECURSIVE C18_After(_, _, _)
C18_After(heap, v, n) ==
  IF n = 0 \/ ~IsTypeAlias(v) THEN v
  ELSE C18_After(heap, Deref(heap, v.alias), n - 1)

C18_EndsAtBaseType(heap, v) ==
  \E n \in 1..Cardinality(DOMAIN heap) :
    LET t == C18_After(heap, v, n)
    IN "kind" \in DOMAIN t /\ t.kind = "BaseType"

C18_Kept(heap, v, f) ==
  ~IsTypeAlias(v) \/ (~f /\ C18_EndsAtBaseType(heap, v))

C18_Holds(heap, M, f) ==
  LET once == resolve_aliases(heap, M, f)
      twice == IF once.diverges THEN Diverges
               ELSE resolve_aliases(heap, once.value, f)
  IN /\ twice = once
     /\ ~once.diverges =>
          /\ \A n \in DOMAIN once.value :
               /\ once.value[n].name = n
               /\ \E k \in DOMAIN M : M[k] = once.value[n]
               /\ C18_Kept(heap, once.value[n], f)
          /\ \A k \in DOMAIN M :
               C18_Kept(heap, M[k], f) =>
                 /\ M[k].name \in DOMAIN once.value
                 /\ once.value[M[k].name] = M[k]

C25_Stars(me) ==
  SelectSeq([i \in DOMAIN me.type_str |-> i],
            LAMBDA i : me.type_str[i] = "*")

\* A 'const' token stands between the (i-1)-th '*' and the i-th.
C25_ConstBefore(me, i) ==
  LET stars == C25_Stars(me)
      from == IF i = 1 THEN 0 ELSE stars[i - 1]
  IN \E j \in (from + 1)..(stars[i] - 1) : me.type_str[j] = "const"

C25_OnlyStars(me) == \A i \in DOMAIN me.type_str : me.type_str[i] # "["

C25_IsExample(me) ==
  /\ me.type = "void" /\ me.name # "pNext"
  /\ me.type_str = <<"*", "*">>
  /\ me.len = Absent /\ me.altlen = Absent

C25_FieldFollowsStars(f) ==
  LET chain == ModifierChain(f.field.type)
  IN C25_OnlyStars(f.me) =>
       /\ C20_Strings(f.me) = {} => Len(chain) = Len(C25_Stars(f.me))
       /\ Len(chain) <= Len(C25_Stars(f.me))
       /\ \A i \in DOMAIN chain :
            chain[i].is_const <=> C25_ConstBefore(f.me, i)

C25_LevelsFollowStarsOutermostFirst ==
  DeclLoaded =>
    \A f \in LoadedFields :
      /\ C25_FieldFollowsStars(f)
      /\ C25_IsExample(f.me) => TypeName(f.field.type) = "Pointer(Pointer(void))"

\* A loaded 'T* const*' or 'const T**' (one level const, the other not),
\* or the claim's void**.
C25_Witness ==
  /\ DeclLoaded
  /\ \E f \in LoadedFields :
       \/ /\ f.me.type_str \in {<<"*", "const", "*">>, <<"const", "*", "*">>}
          /\ Len(ModifierChain(f.field.type)) = 2
          /\ f.field.type.is_const # f.field.type.base_type.is_const
       \/ /\ C25_IsExample(f.me)
          /\ f.field.type.kind = "Pointer"
          /\ f.field.type.base_type.kind = "Pointer"
(* ---------------------------------------------------------------------- *)
(* C29: for every Handle of a loaded registry, a handle other than         *)
(* VkInstance without parent included, is_instance_handle returns a        *)
(* boolean without raising, and is_device_handle is its negation.          *)
(* ---------------------------------------------------------------------- *)
\* Handle.is_device_handle of the handle named h in the heap objs.
is_device_handle(objs, h, depth) ==
  LET r == is_instance_handle(objs, h, depth)
  IN IF r.raised # "" THEN r ELSE Returns(~r.value)

C29_HandlePropertiesAreTotal ==
  DeclLoaded =>
    \A h \in Handles :
      LET i == is_instance_handle(typeObj, h, RecursionLimit(typeObj))
          d == is_device_handle(typeObj, h, RecursionLimit(typeObj))
      IN /\ i.raised = "" /\ i.value \in BOOLEAN
         /\ d = Returns(~i.value)
(* ---------------------------------------------------------------------- *)
(* C23: a type element with alias= loads whatever the order of the         *)
(* declarations: when every name the document refers to is declared        *)
(* somewhere in it, __parse_types succeeds, also for an alias element      *)
(* that stands before the type it names, and registry.types holds under    *)
(* the alias name a TypeAlias of the entry of the target.                  *)
(* ---------------------------------------------------------------------- *)
\* The names the document declares as types, in any place.
C23_Declared ==
  {"string", AliasEnumName} \cup Range(PlainTypes)
    \cup {te.name : te \in Range(root.basetypes)}
    \cup {te.name : te \in Range(root.types)}

C23_AllNamesDeclared ==
  /\ \A te \in Range(root.basetypes) :
       ~te.type.none => te.type.text \in C23_Declared
  /\ \A te \in Range(root.types) :
       ~te.alias.none => te.alias.text \in C23_Declared

C23_Step ==
  (pc = "alias_types" /\ C23_AllNamesDeclared) =>
    /\ pc' = "alias_commands"
    /\ \A te \in Range(root.types) :
         ~te.alias.none =>
           /\ te.name \in Range(types')
           /\ typeObj'[te.name].kind = "TypeAlias"
           /\ typeObj'[te.name].alias = ObjectRef(te.alias.text)

C23_AliasLoadsInAnyOrder == [][C23_Step]_vars

(* ====================================================================== *)
(* Aliases under the filter.                                               *)
(*                                                                         *)
(* Documents of the alias family whose <extension> requires types and      *)
(* commands by name, canonical or alias, contributes an enum value, and    *)
(* is supported="vulkan" or "disabled"; the constructor's default          *)
(* arguments select it in the first case only.                             *)
(* ====================================================================== *)
ClosureTypeSections ==
  { <<StructElement("S1")>>,
    <<StructElement("S1"), AliasElement("S1KHR", "S1")>>,
    <<StructElement("S1"), AliasElement("S1KHR", "S1"),
      AliasElement("S1KHR2", "S1KHR")>> }
ClosureCommandSections ==
  { <<StructElement("vkCmd")>>,
    <<StructElement("vkCmd"), AliasElement("vkCmdKHR", "vkCmd")>> }
ClosureEnumSections ==
  { <<[name |-> "VA", value |-> Attr(<<"7">>), bitpos |-> Absent,
       alias |-> Absent],
      [name |-> "VB", value |-> Absent, bitpos |-> Absent,
       alias |-> Attr("VA")]>>,
    <<[name |-> "VA", value |-> Absent, bitpos |-> Absent,
       alias |-> Attr("VC")],
      [name |-> "VB", value |-> Attr(<<"7">>), bitpos |-> Absent,
       alias |-> Absent]>> }
ClosureExtends ==
  { <<>>,
    <<[NoExtend EXCEPT !.value = Attr(<<"5">>)]>>,
    <<[NoExtend EXCEPT !.alias = Attr("VA")]>> }
ClosureRequires ==
  {RequireNames(ts, cs) :
     ts \in {<<>>, <<"S1">>, <<"S1KHR">>},
     cs \in {<<>>, <<"vkCmd">>, <<"vkCmdKHR">>}}
ClosureSupported == {vulkan, disabled}

ClosureDocuments ==
  {[basetypes |-> <<[name |-> "VkFlags", type |-> Attr("uint32_t")],
                    [name |-> "VkBool32", type |-> Attr("VkFlags")]>>,
    types |-> ts, commands |-> cs, enums |-> es, extension |-> xs,
    features |-> <<>>, require |-> rq, supported |-> su] :
     ts \in ClosureTypeSections, cs \in ClosureCommandSections,
     es \in ClosureEnumSections, xs \in ClosureExtends,
     rq \in ClosureRequires, su \in ClosureSupported}

ClosureInit ==
  /\ pc = "alias_basetypes"
  /\ root \in ClosureDocuments
  /\ typeObj = EmptyMap
  /\ cmdObj = EmptyMap
  /\ extObj = EmptyMap
  /\ types = <<>>
  /\ commands = <<>>
  /\ extensions = <<>>
  /\ platforms = EmptyMap
  /\ args = NoArgs

ClosureSpec == ClosureInit /\ [][AliasNext]_vars

(* ---------------------------------------------------------------------- *)
(* C27  Extension provenance of a command is per name: an extension whose  *)
(* require/command names only an alias of a command does not add itself to *)
(* the canonical command's extensions list, so a core command that         *)
(* extensions reference through its aliases only keeps an empty extensions *)
(* list and stays under its canonical name when the authors contain ''.    *)
(* ---------------------------------------------------------------------- *)
\* The names of the <command> elements that have no alias attribute.
C27_Canonical == {ce.name : ce \in {e \in Range(root.commands) : e.alias.none}}

C27_RequiredByName(c) == c \in Range(root.require.commands)

C27_AliasReferenceLeavesCommandCore ==
  AliasLoaded =>
    \A c \in C27_Canonical :
      (~C27_RequiredByName(c) /\ "" \in args.authors.names) =>
        /\ cmdObj[c].extensions = <<>>
        /\ [key |-> c, cmd |-> c] \in Range(commands)

(* ---------------------------------------------------------------------- *)
(* C28  The filtered registry is closed under alias targets: the target of *)
(* every TypeAlias in registry.types is in registry.types, and the target  *)
(* of every alias value an enum retains is retained by the same enum.      *)
(* ---------------------------------------------------------------------- *)
C28_TypeTargetsPresent ==
  \A k \in Range(types) :
    (typeObj[k].kind = "TypeAlias" /\ typeObj[k].alias.kind = "Object") =>
      typeObj[k].alias.name \in Range(types)

C28_ValueTargetsRetained ==
  \A k \in LoadedEnums :
    \A n \in DOMAIN typeObj[k].values :
      LET ev == typeObj[k].values[n]
      IN (ev.kind = "TypeAlias" /\ ev.alias.kind = "Object") =>
           ev.alias.name \in DOMAIN typeObj[k].values

C28_FilteredRegistryClosedUnderAliasTargets ==
  AliasLoaded => (C28_TypeTargetsPresent /\ C28_ValueTargetsRetained)

(* ====================================================================== *)
(* Extended enum values.                                                   *)
(*                                                                         *)
(* Documents of the alias family whose extension (number 2) or feature     *)
(* contributes one <enum extends="E1"> element carrying any combination of *)
(* the alias, value, bitpos, offset and extnumber attributes, to an enum   *)
(* that is a bitmask or not.                                               *)
(* ====================================================================== *)
ExtendEnumSections ==
  { <<[name |-> "VA", value |-> Attr(<<"7">>), bitpos |-> Absent,
       alias |-> Absent],
      [name |-> "VB", value |-> Attr(<<"1">>), bitpos |-> Absent,
       alias |-> Absent]>>,
    <<[name |-> "VA", value |-> Absent, bitpos |-> Attr(<<"3">>),
       alias |-> Absent],
      [name |-> "VB", value |-> Attr(<<"1">>), bitpos |-> Absent,
       alias |-> Absent]>> }
ExtendAttributes ==
  {[name |-> n, alias |-> a, value |-> v, bitpos |-> b, offset |-> o,
    extnumber |-> x] :
     n \in {"VC", "VB"},
     a \in {Absent, Attr("VA")},
     v \in {Absent, Attr(<<"5">>), Attr(<<"-", "2">>)},
     b \in {Absent, Attr(<<"2">>)},
     o \in {Absent, Attr(<<"1">>)},
     x \in {Absent, Attr(<<"3">>)}}
ExtendContributions ==
  {[extension |-> <<e>>, features |-> <<>>] : e \in ExtendAttributes}
  \cup {[extension |-> <<>>, features |-> <<e>>] : e \in ExtendAttributes}

ExtendDocuments ==
  {[basetypes |-> <<[name |-> "VkFlags", type |-> Attr("uint32_t")],
                    [name |-> "VkBool32", type |-> Attr("VkFlags")]>>,
    types |-> <<StructElement("S1")>>,
    commands |-> <<StructElement("vkCmd")>>,
    enums |-> es, extension |-> c.extension, features |-> c.features,
    require |-> NoRequire, supported |-> vulkan] :
     es \in ExtendEnumSections, c \in ExtendContributions}

ExtendInit ==
  /\ pc = "alias_basetypes"
  /\ root \in ExtendDocuments
  /\ typeObj = EmptyMap
  /\ cmdObj = EmptyMap
  /\ extObj = EmptyMap
  /\ types = <<>>
  /\ commands = <<>>
  /\ extensions = <<>>
  /\ platforms = EmptyMap
  /\ args = NoArgs

ExtendSpec == ExtendInit /\ [][AliasNext]_vars

(* ---------------------------------------------------------------------- *)
(* C24  parse_enum_extend computes the value grafted onto the target enum  *)
(* with the precedence alias= (a TypeAlias), then value= (a signed         *)
(* integer), then 1 << bitpos when the enum is a bitmask, else             *)
(* 1000000000 + (ext_number - 1) * 1000 + offset, ext_number being the     *)
(* number of the contributing extension or, for a feature, the element's   *)
(* extnumber (0 without one); the result is stored in the enum under the   *)
(* element's name.                                                         *)
(* ---------------------------------------------------------------------- *)
\* The integers the attribute texts of these documents denote.
C24_Number(text) ==
  CASE text = <<"5">> -> 5
    [] text = <<"-", "2">> -> 0 - 2
    [] text = <<"2">> -> 2
    [] text = <<"1">> -> 1
    [] text = <<"3">> -> 3

\* The element carries the attribute its case of the precedence reads.
C24_Defined(is_bitmask, ee) ==
  \/ ~ee.alias.none
  \/ ~ee.value.none
  \/ is_bitmask /\ ~ee.bitpos.none
  \/ ~is_bitmask /\ ~ee.offset.none

\* The stored object is the one the precedence gives.
C24_Follows(stored, is_bitmask, ee, ext_number) ==
  /\ stored.name = ee.name
  /\ IF ~ee.alias.none
       THEN /\ stored.kind = "TypeAlias"
            /\ stored.alias \in {AliasName(ee.alias.text),
                                 ObjectRef(ee.alias.text)}
       ELSE /\ stored.kind = "EnumValue"
            /\ stored.value =
                 PyInt(IF ~ee.value.none THEN C24_Number(ee.value.text)
                       ELSE IF is_bitmask
                         THEN 2 ^ C24_Number(ee.bitpos.text)
                       ELSE 1000000000 + (ext_number - 1) * 1000
                              + C24_Number(ee.offset.text))

C24_Grafted(ee, ext_number) ==
  LET is_bitmask == typeObj[AliasEnumName].is_bitmask
  IN C24_Defined(is_bitmask, ee) =>
       /\ pc' # "failed"
       /\ ee.name \in DOMAIN typeObj'[AliasEnumName].values
       /\ C24_Follows(typeObj'[AliasEnumName].values[ee.name], is_bitmask,
                      ee, ext_number)

C24_Step ==
  /\ (pc = "alias_extensions" /\ root.extension # <<>>) =>
       C24_Grafted(root.extension[1], 2)
  /\ (pc = "alias_features" /\ root.features # <<>>) =>
       C24_Grafted(root.features[1],
                   IF root.features[1].extnumber.none THEN 0
                   ELSE C24_Number(root.features[1].extnumber.text))

C24_ExtendValueFollowsPrecedence == [][C24_Step]_vars

\* A loaded registry whose extension, number 2, gave E1 the value of offset
\* 1 although the element names another extnumber; one whose feature gave
\* a bitmask the value attribute although the element has a bitpos too.
C24_Witness ==
  /\ AliasLoaded
  /\ \/ /\ root.extension # <<>>
        /\ root.extension[1].name = "VC"
        /\ ~root.extension[1].extnumber.none
        /\ ~root.extension[1].bitpos.none
        /\ typeObj[AliasEnumName].values["VC"].kind = "EnumValue"
        /\ typeObj[AliasEnumName].values["VC"].value = PyInt(1000001001)
     \/ /\ root.features # <<>>
        /\ root.features[1].name = "VC"
        /\ ~root.features[1].bitpos.none
        /\ typeObj[AliasEnumName].is_bitmask
        /\ typeObj[AliasEnumName].values["VC"].kind = "EnumValue"
        /\ typeObj[AliasEnumName].values["VC"].value = PyInt(0 - 2)

(* ====================================================================== *)
(* Reference resolution in place.                                          *)
(*                                                                         *)
(* Registry.__resolve_typeref rewrites the objects it is given: a TypeRef  *)
(* becomes the object of registry.types (here the ObjectRef of its name),  *)
(* and a Struct, TypeAlias, Handle or modifier that is already an object   *)
(* is entered again and its fields are resolved again.  The operators      *)
(* below thread the heap through the recursion and keep the set of the     *)
(* objects whose resolution is under way: entering one of them again       *)
(* finds it as it was entered, so the recursion does not end and Python    *)
(* raises RecursionError.                                                  *)
(* ====================================================================== *)
Resolved(heap, v) == [heap |-> heap, raised |-> "", value |-> v]
ResolveRaises(heap, e) == [heap |-> heap, raised |-> e, value |-> None]

\* 'r = v' followed by Body(r): the call v is made once and its result is
\* what the statements after it read.
Bind(v, Body(_)) == CHOOSE out \in {Body(r) : r \in {v}} : TRUE

RECURSIVE Registry_resolve_typeref(_, _, _, _)
RECURSIVE ResolveMembers(_, _, _, _, _)

\* The loop 'for m in t.members' of the Struct named n from member i on.
ResolveMembers(keys, heap, n, i, entered) ==
  IF i > Len(heap[n].members) THEN Resolved(heap, ObjectRef(n))
  ELSE Bind(Registry_resolve_typeref(keys, heap, heap[n].members[i].type,
                                     entered),
            LAMBDA r :
              IF r.raised # "" THEN r
              ELSE ResolveMembers(
                     keys, [r.heap EXCEPT ![n].members[i].type = r.value],
                     n, i + 1, entered))

\* Registry.__resolve_typeref(t), the objects of entered being under way.
Registry_resolve_typeref(keys, heap, t, entered) ==
  CASE t.kind = "TypeRef" ->
         IF t.ref \in Range(keys) THEN Resolved(heap, ObjectRef(t.ref))
         ELSE ResolveRaises(heap, "KeyError")
    [] t.kind \in {"DynamicArray", "FixedArray", "Pointer"} ->
         Bind(Registry_resolve_typeref(keys, heap, t.base_type, entered),
              LAMBDA r :
                IF r.raised # "" THEN r
                ELSE [r EXCEPT !.value = [t EXCEPT !.base_type = r.value]])
    [] t.kind = "Object" ->
         IF t.name \in entered THEN ResolveRaises(heap, "RecursionError")
         ELSE
           LET obj == heap[t.name]
               under == entered \cup {t.name}
           IN CASE obj.kind = "Struct" ->
                     ResolveMembers(keys, heap, t.name, 1, under)
                [] obj.kind = "TypeAlias" ->
                     Bind(Registry_resolve_typeref(keys, heap, obj.alias,
                                                   under),
                          LAMBDA r :
                            IF r.raised # "" THEN r
                            ELSE Resolved([r.heap EXCEPT
                                             ![t.name].alias = r.value], t))
                [] obj.kind = "Handle" ->
                     IF obj.parent.kind # "TypeRef" THEN Resolved(heap, t)
                     ELSE IF obj.parent.ref = ""
                       THEN Resolved([heap EXCEPT ![t.name].parent = None], t)
                     ELSE IF obj.parent.ref \notin Range(keys)
                       THEN ResolveRaises(heap, "KeyError")
                     ELSE Resolved([heap EXCEPT ![t.name].parent =
                                      ObjectRef(obj.parent.ref)], t)
                [] OTHER -> Resolved(heap, t)
    [] OTHER -> Resolved(heap, t)

\* 'for t in self.types.values(): t = self.__resolve_typeref(t)' over the
\* keys names, in their order.
RECURSIVE ResolveTypes(_, _, _)
ResolveTypes(keys, heap, names) ==
  IF names = <<>> THEN Resolved(heap, None)
  ELSE Bind(Registry_resolve_typeref(keys, heap, ObjectRef(Head(names)), {}),
            LAMBDA r :
              IF r.raised # "" THEN r
              ELSE ResolveTypes(keys, r.heap, Tail(names)))

\* 'for p in cmd.parameters: p.type = self.__resolve_typeref(p.type)' for
\* the Command cmd from parameter i on; value is the command.
RECURSIVE ResolveParameters(_, _, _, _)
ResolveParameters(keys, heap, cmd, i) ==
  IF i > Len(cmd.parameters) THEN Resolved(heap, cmd)
  ELSE Bind(Registry_resolve_typeref(keys, heap, cmd.parameters[i].type, {}),
            LAMBDA r :
              IF r.raised # "" THEN r
              ELSE Bind([cmd EXCEPT !.parameters[i].type = r.value],
                        LAMBDA resolved :
                          ResolveParameters(keys, r.heap, resolved, i + 1)))

\* The second loop of Registry.__parse_commands over the entries of
\* registry.commands from entry i on: the Command of an alias key is the
\* canonical Command, met once more under that key.  st holds the types
\* (heap) and the commands (value).
RECURSIVE ResolveCommands(_, _, _, _)
ResolveCommands(keys, dict, st, i) ==
  IF i > Len(dict) \/ st.raised # "" THEN st
  ELSE LET c == dict[i].cmd
       IN Bind(ResolveParameters(keys, st.heap, st.value[c], 1),
               LAMBDA r :
                 IF r.raised # "" THEN ResolveRaises(st.heap, r.raised)
                 ELSE Bind(Command_is_instance(r.heap, r.value),
                           LAMBDA is_instance :
                             IF is_instance.raised # ""
                               THEN ResolveRaises(st.heap, is_instance.raised)
                             ELSE Bind(Resolved(
                                         r.heap,
                                         [st.value EXCEPT ![c] =
                                            [r.value EXCEPT !.is_instance =
                                               is_instance.value]]),
                                       LAMBDA next :
                                         ResolveCommands(keys, dict, next,
                                                         i + 1))))

\* Command.__init__ for the element ce with these parameters: the success
\* codes are the parts of the successcodes attribute between its commas.
Command_init(ce, parameters) ==
  [name |-> ce.name, parameters |-> parameters, is_instance |-> FALSE,
   successcodes |-> IF ce.successcodes.none THEN <<>>
                    ELSE split(ce.successcodes.text, ","),
   extensions |-> <<>>, feature |-> ""]

(* ---------------------------------------------------------------------- *)
(* The documents: two structs with one member each, a plain value or a     *)
(* pointer to one of the structs; an alias of the first struct or none;    *)
(* a command with one parameter, its result codes, and an alias of it or   *)
(* none.                                                                   *)
(* ---------------------------------------------------------------------- *)
MemberField(name, type, type_str) ==
  [name |-> name, type |-> type, type_str |-> type_str, len |-> Absent,
   altlen |-> Absent]
CycleMembers ==
  { MemberField("p", "uint32_t", <<>>),
    MemberField("p", "S1", <<"*">>),
    MemberField("p", "S2", <<"const", "*">>) }
CycleParams ==
  { MemberField("x", "uint32_t", <<>>),
    MemberField("x", "S1", <<"const", "*">>),
    MemberField("x", "S2", <<"*">>) }
\* <type category=...> elements: a struct with its members, an alias, a
\* handle with its parent attribute.
StructDecl(name, members) ==
  [category |-> "struct", name |-> name, alias |-> Absent,
   members |-> members]
AliasDecl(name, alias) ==
  [category |-> "struct", name |-> name, alias |-> Attr(alias),
   members |-> <<>>]
HandleDecl(name, parent) ==
  [category |-> "handle", name |-> name, alias |-> Absent, members |-> <<>>,
   parent |-> parent]
CycleTypeSections ==
  UNION {{ <<StructDecl("S1", <<a>>), StructDecl("S2", <<b>>)>>,
           <<StructDecl("S1", <<a>>), AliasDecl("S1KHR", "S1"),
             StructDecl("S2", <<b>>)>>,
           <<StructDecl("S1", <<a>>), StructDecl("S2", <<b>>),
             AliasDecl("S1KHR", "S1")>> } :
           <<a, b>> \in CycleMembers \X CycleMembers}
CodeAttributes ==
  { Absent,
    Attr(<<"VK_SUCCESS">>),
    Attr(<<"VK_ERROR_A", ",", "VK_ERROR_B">>) }
CycleCommandSections ==
  UNION {{ <<[name |-> "vkCmd", alias |-> Absent, params |-> <<p>>,
              successcodes |-> s, errorcodes |-> e]>>,
           <<[name |-> "vkCmd", alias |-> Absent, params |-> <<p>>,
              successcodes |-> s, errorcodes |-> e],
             [name |-> "vkCmdKHR", alias |-> Attr("vkCmd"), params |-> <<>>,
              successcodes |-> Absent, errorcodes |-> Absent]>> } :
           <<p, s, e>> \in CycleParams \X CodeAttributes \X CodeAttributes}
CycleDocuments ==
  {[types |-> ts, commands |-> cs] :
     ts \in CycleTypeSections, cs \in CycleCommandSections}

\* The state before __parse_types: the base types are in the registry.
CycleInit ==
  /\ pc = "cycle_types"
  /\ root \in CycleDocuments
  /\ typeObj = [n \in Range(DeclBaseTypes) |-> NewType("BaseType")]
  /\ types = DeclBaseTypes
  /\ cmdObj = EmptyMap
  /\ extObj = EmptyMap
  /\ commands = <<>>
  /\ extensions = <<>>
  /\ platforms = EmptyMap
  /\ args = NoArgs

\* The first loop of Registry.__parse_types over the elements tes.
RECURSIVE ParseTypeDecls(_, _)
ParseTypeDecls(reg, tes) ==
  IF tes = <<>> \/ reg.raised # "" THEN reg
  ELSE LET te == Head(tes)
           fields == [i \in DOMAIN te.members |->
                        parse_parameter_or_member(te.members[i])]
           made == IF ~te.alias.none
                     THEN TypeAlias(te.name, ObjectRef(te.alias.text))
                   ELSE IF te.category = "handle"
                     THEN NewHandle(te.parent) @@ [name |-> te.name]
                   ELSE NewStructWithMembers(fields) @@ [name |-> te.name]
       IN IF ~te.alias.none /\ te.alias.text \notin Range(reg.keys)
            THEN [reg EXCEPT !.raised = "KeyError"]
          ELSE IF \E i \in DOMAIN fields : fields[i].raised
            THEN [reg EXCEPT !.raised = "ValueError"]
          ELSE ParseTypeDecls(
                 [reg EXCEPT !.keys = Append(@, te.name),
                             !.objs = Put(@, te.name, made)],
                 Tail(tes))

\* What Registry.__parse_types makes of the document: the keys, and the
\* objects after the resolution of every type.
CycleTypes ==
  Bind(ParseTypeDecls([raised |-> "", keys |-> types, objs |-> typeObj],
                      root.types),
       LAMBDA reg :
         IF reg.raised # "" THEN [reg EXCEPT !.objs = typeObj]
         ELSE Bind(ResolveTypes(reg.keys, reg.objs, reg.keys),
                   LAMBDA r : [raised |-> r.raised, keys |-> reg.keys,
                               objs |-> r.heap]))

Cycle_parse_types ==
  /\ pc = "cycle_types"
  /\ \E reg \in {CycleTypes} :
        IF reg.raised # ""
          THEN pc' = "failed" /\ UNCHANGED <<typeObj, types>>
          ELSE pc' = "cycle_commands" /\ typeObj' = reg.objs
                 /\ types' = reg.keys
  /\ UNCHANGED <<root, cmdObj, extObj, commands, extensions, platforms, args>>

\* The first loop of Registry.__parse_commands over the elements ces.
RECURSIVE ParseCommandDecls(_, _)
ParseCommandDecls(reg, ces) ==
  IF ces = <<>> \/ reg.raised # "" THEN reg
  ELSE LET ce == Head(ces)
           Named(e) == e.key = ce.alias.text
           fields == [i \in DOMAIN ce.params |->
                        parse_parameter_or_member(ce.params[i])]
       IN IF ce.alias.none
            THEN ParseCommandDecls(
                   [reg EXCEPT
                      !.dict = Append(@, [key |-> ce.name, cmd |-> ce.name]),
                      !.objs = Put(@, ce.name, Command_init(ce, fields))],
                   Tail(ces))
          ELSE IF SelectSeq(reg.dict, Named) = <<>>
            THEN [reg EXCEPT !.raised = "KeyError"]
          ELSE ParseCommandDecls(
                 [reg EXCEPT
                    !.dict = Append(@, [key |-> ce.name,
                                        cmd |-> SelectSeq(@, Named)[1].cmd])],
                 Tail(ces))

\* What Registry.__parse_commands makes of the document: the dictionary,
\* the Command objects and the types after the resolution of the
\* parameters of the Command under every key.
CycleCommands ==
  Bind(ParseCommandDecls([raised |-> "", dict |-> commands, objs |-> cmdObj],
                         root.commands),
       LAMBDA reg :
         IF reg.raised # ""
           THEN [raised |-> reg.raised, dict |-> commands, objs |-> cmdObj,
                 heap |-> typeObj]
         ELSE Bind(ResolveCommands(types, reg.dict,
                                   Resolved(typeObj, reg.objs), 1),
                   LAMBDA r : [raised |-> r.raised, dict |-> reg.dict,
                               objs |-> r.value, heap |-> r.heap]))

Cycle_parse_commands ==
  /\ pc = "cycle_commands"
  /\ \E reg \in {CycleCommands} :
        IF reg.raised # ""
          THEN pc' = "failed" /\ UNCHANGED <<typeObj, cmdObj, commands>>
          ELSE /\ pc' = "cycle_done"
               /\ commands' = reg.dict
               /\ cmdObj' = reg.objs
               /\ typeObj' = reg.heap
  /\ UNCHANGED <<root, extObj, types, extensions, platforms, args>>

CycleNext == Cycle_parse_types \/ Cycle_parse_commands

CycleSpec == CycleInit /\ [][CycleNext]_vars

(* ---------------------------------------------------------------------- *)
(* C26  Reference resolution terminates on every type catalog: the         *)
(* rewrite over all types and over the parameters of all commands          *)
(* finishes even when a struct has a member that points to its own struct  *)
(* type, or two structs point to each other, and the struct is visited     *)
(* again through a type alias or through a command under an alias key.     *)
(* ---------------------------------------------------------------------- *)
\* The step of the constructor does not end in the RecursionError of a
\* resolution that goes round for ever.
C26_Step ==
  pc' = "failed" =>
    (IF pc = "cycle_types" THEN CycleTypes.raised ELSE CycleCommands.raised)
      # "RecursionError"

C26_ReferenceResolutionTerminates == [][C26_Step]_vars

(* ---------------------------------------------------------------------- *)
(* C22  Every Command of a loaded registry exposes successcodes and        *)
(* errorcodes, each the list of the names in the comma-separated attribute *)
(* of that name on the command element, empty without the attribute.       *)
(* ---------------------------------------------------------------------- *)
\* The names between the commas of an attribute.
C22_Names(attr) ==
  IF attr.none THEN <<>>
  ELSE LET names == SelectSeq(attr.text, LAMBDA x : x # ",")
       IN [i \in DOMAIN names |-> <<names[i]>>]

C22_CommandExposesBothCodeLists ==
  pc = "cycle_done" =>
    \A e \in Range(commands) :
      LET cmd == cmdObj[e.cmd]
          ce == CHOOSE x \in Range(root.commands) : x.name = e.cmd
      IN /\ "successcodes" \in DOMAIN cmd
         /\ cmd.successcodes = C22_Names(ce.successcodes)
         /\ "errorcodes" \in DOMAIN cmd
         /\ cmd.errorcodes = C22_Names(ce.errorcodes)

(* ====================================================================== *)
(* DynamicArray.length_expr.                                               *)
(*                                                                         *)
(* A length is the sequence of the characters of the len attribute.  The   *)
(* parent of a DynamicArray is the Struct or the Command whose member or   *)
(* parameter it was parsed for.                                            *)
(* ====================================================================== *)
Letters ==
  {"a", "b", "c", "d", "e", "f", "g", "h", "i", "j", "k", "l", "m", "n",
   "o", "p", "q", "r", "s", "t", "u", "v", "w", "x", "y", "z",
   "A", "B", "C", "D", "E", "F", "G", "H", "I", "J", "K", "L", "M", "N",
   "O", "P", "Q", "R", "S", "T", "U", "V", "W", "X", "Y", "Z"}
Digits == {"0", "1", "2", "3", "4", "5", "6", "7", "8", "9"}
\* \w
WordChars == Letters \cup Digits \cup {"_"}

\* The str of a sequence of characters.
RECURSIVE Join(_)
Join(chars) == IF chars = <<>> THEN "" ELSE Head(chars) \o Join(Tail(chars))

\* Where the greedy (\w|->)* that starts at index j of s stops: the index
\* of the first character it does not take.
RECURSIVE RepeatWordOrArrow(_, _)
RepeatWordOrArrow(s, j) ==
  IF j <= Len(s) /\ s[j] \in WordChars THEN RepeatWordOrArrow(s, j + 1)
  ELSE IF j + 1 <= Len(s) /\ s[j] = "-" /\ s[j + 1] = ">"
    THEN RepeatWordOrArrow(s, j + 2)
  ELSE j

\* \b[a-zA-Z](\w|->)+ matches at index i of s.
MatchesAt(s, i) ==
  /\ i = 1 \/ s[i - 1] \notin WordChars
  /\ s[i] \in Letters
  /\ RepeatWordOrArrow(s, i + 1) > i + 1

\* re.search(r'\b[a-zA-Z](\w|->)+', s): the leftmost match, or None.
re_search(s) ==
  IF \A i \in DOMAIN s : ~MatchesAt(s, i) THEN None
  ELSE LET i == CHOOSE i \in DOMAIN s :
                  MatchesAt(s, i) /\ \A j \in 1..(i - 1) : ~MatchesAt(s, j)
       IN [kind |-> "Match", start |-> i,
           text |-> SubSeq(s, i, RepeatWordOrArrow(s, i + 1) - 1)]

\* s.split('->')
RECURSIVE split_arrow(_)
split_arrow(s) ==
  IF \A i \in 1..(Len(s) - 1) : ~(s[i] = "-" /\ s[i + 1] = ">") THEN <<s>>
  ELSE LET i == CHOOSE i \in 1..(Len(s) - 1) :
                  /\ s[i] = "-" /\ s[i + 1] = ">"
                  /\ \A j \in 1..(i - 1) : ~(s[j] = "-" /\ s[j + 1] = ">")
       IN <<SubSeq(s, 1, i - 1)>> \o split_arrow(SubSeq(s, i + 2, Len(s)))

\* s.replace(old, new): every occurrence of old, from the left, without
\* overlap.
RECURSIVE replace(_, _, _)
replace(s, old, new) ==
  IF Len(s) < Len(old) THEN s
  ELSE IF SubSeq(s, 1, Len(old)) = old
    THEN new \o replace(SubSeq(s, Len(old) + 1, Len(s)), old, new)
  ELSE <<Head(s)>> \o replace(Tail(s), old, new)

\* Command.find_parameter and Struct.find_member: the first field of this
\* name, or None.
find_field(ty, name) ==
  LET fields == IF "parameters" \in DOMAIN ty THEN ty.parameters
                ELSE ty.members
      named == SelectSeq(fields, LAMBDA f : f.name = Join(name))
  IN IF named = <<>> THEN None ELSE named[1]

\* The loop over length_field_parts[:-1] from part i on: the innermost
\* struct, or the exception of a part that is no field (None has no type)
\* or no pointer to a struct (the assertion).
RECURSIVE InnermostStruct(_, _, _, _)
InnermostStruct(heap, obj_ty, parts, i) ==
  IF i >= Len(parts) THEN Returns(obj_ty)
  ELSE LET field == find_field(obj_ty, parts[i])
       IN IF field = None THEN Raises("AttributeError")
          ELSE IF ~(/\ field.type.kind = "Pointer"
                    /\ field.type.base_type.kind = "Object"
                    /\ heap[field.type.base_type.name].kind = "Struct")
            THEN Raises("AssertionError")
          ELSE InnermostStruct(heap, heap[field.type.base_type.name],
                               parts, i + 1)

\* DynamicArray.length_expr(obj_expr) of the array with this length and
\* parent, on the types heap.
length_expr(heap, parent, length, obj_expr) ==
  LET match == re_search(length)
  IN IF match = None THEN Returns(length)
     ELSE
       LET length_field_name == match.text
           length_field_parts == split_arrow(length_field_name)
           obj_ty == InnermostStruct(heap, parent, length_field_parts, 1)
           length_field ==
             find_field(obj_ty.value,
                        length_field_parts[Len(length_field_parts)])
           with_obj == IF obj_expr.none THEN length_field_name
                       ELSE obj_expr.text \o <<".">> \o length_field_name
           length_field_expr ==
             IF length_field.type.kind = "Pointer"
               THEN <<"*">> \o with_obj ELSE with_obj
       IN IF obj_ty.raised # "" THEN obj_ty
          ELSE IF length_field = None THEN Returns(length)
          ELSE Returns(replace(length, length_field_name, length_field_expr))

(* ---------------------------------------------------------------------- *)
(* The documents: a struct S2 with a count, and a struct S1 or a command   *)
(* vkCmd that has counts, a pointer to S2 and an array with a len.         *)
(* ---------------------------------------------------------------------- *)
LengthTexts ==
  { <<"c", "n">>,
    <<"n">>,
    <<"p", "c">>,
    <<"p", "I", "-", ">", "c", "n">>,
    <<"p", "I", "-", ">", "z", "z">>,
    <<"2">>,
    <<"2", "*", "V", "K">>,
    <<"(", "c", "n", " ", "+", " ", "3", "1", ")", " ", "/", " ", "3", "2">>,
    <<"c", "n", "*", "c", "n">>,
    <<"c", "n", " ", "+", " ", "a", "c", "n">>,
    <<"z", "z", "-", ">", "c", "n">>,
    <<"c", "n", "-", ">", "n">> }
ArrayField(type_str, length) ==
  [name |-> "pData", type |-> "uint32_t", type_str |-> type_str,
   len |-> Attr(length), altlen |-> Absent]
LengthFields(cn, array) ==
  << MemberField("cn", "uint32_t", cn),
     MemberField("n", "uint32_t", <<>>),
     MemberField("pc", "uint32_t", <<"*">>),
     MemberField("pI", "S2", <<"const", "*">>),
     array >>
CountStruct == StructDecl("S2", <<MemberField("cn", "uint32_t", <<>>)>>)
PlainCommand(params) ==
  [name |-> "vkCmd", alias |-> Absent, params |-> params,
   successcodes |-> Absent, errorcodes |-> Absent]
LengthDocuments ==
  UNION {{ [types |-> <<StructDecl("S1", LengthFields(cn, ArrayField(d, l))),
                        CountStruct>>,
            commands |-> <<PlainCommand(<<MemberField("x", "uint32_t",
                                                      <<>>)>>)>>],
           [types |-> <<CountStruct>>,
            commands |-> <<PlainCommand(
                             LengthFields(cn, ArrayField(d, l)))>>] } :
           <<cn, d, l>> \in {<<>>, <<"*">>} \X {<<"*">>, <<"const", "*">>}
                              \X LengthTexts}

LengthInit ==
  /\ pc = "cycle_types"
  /\ root \in LengthDocuments
  /\ typeObj = [n \in Range(DeclBaseTypes) |-> NewType("BaseType")]
  /\ types = DeclBaseTypes
  /\ cmdObj = EmptyMap
  /\ extObj = EmptyMap
  /\ commands = <<>>
  /\ extensions = <<>>
  /\ platforms = EmptyMap
  /\ args = NoArgs

LengthSpec == LengthInit /\ [][CycleNext]_vars

\* The DynamicArray fields of the loaded registry, each with its parent.
LoadedArrays ==
  {[parent |-> typeObj[k], field |-> typeObj[k].members[i]] :
     <<k, i>> \in {<<k, i>> \in Range(types) \X (1..5) :
                     /\ typeObj[k].kind = "Struct"
                     /\ i \in DOMAIN typeObj[k].members
                     /\ typeObj[k].members[i].type.kind = "DynamicArray"}}
  \cup
  {[parent |-> cmdObj[c], field |-> cmdObj[c].parameters[i]] :
     <<c, i>> \in {<<c, i>> \in (DOMAIN cmdObj) \X (1..5) :
                     /\ i \in DOMAIN cmdObj[c].parameters
                     /\ cmdObj[c].parameters[i].type.kind = "DynamicArray"}}

ObjectExpressions == {Absent, Attr(<<"o">>)}

(* ---------------------------------------------------------------------- *)
(* C21  DynamicArray.length_expr(o): when the first identifier chain of    *)
(* the length (identifiers joined by '->') names a field found by walking  *)
(* from the array's parent through pointer-to-struct fields, the result is *)
(* the length with that chain replaced by o + '.' + chain (the bare chain  *)
(* when o is None), prefixed by '*' when the length field's type is a      *)
(* Pointer; when the length has no identifier or the identifier names no   *)
(* field, the length is returned unchanged whatever o is.                  *)
(* ---------------------------------------------------------------------- *)
\* Where the identifier that starts at index i ends (the index after it).
RECURSIVE C21_IdentifierEnd(_, _)
C21_IdentifierEnd(s, i) ==
  IF i <= Len(s) /\ s[i] \in WordChars THEN C21_IdentifierEnd(s, i + 1) ELSE i

\* Where the chain whose first identifier starts at index i ends.
RECURSIVE C21_ChainEnd(_, _)
C21_ChainEnd(s, i) ==
  LET e == C21_IdentifierEnd(s, i)
  IN IF e + 2 <= Len(s) /\ s[e] = "-" /\ s[e + 1] = ">"
          /\ s[e + 2] \in Letters
       THEN C21_ChainEnd(s, e + 2)
       ELSE e

C21_StartsIdentifier(s, i) ==
  s[i] \in Letters /\ (i = 1 \/ s[i - 1] \notin WordChars)

\* The field the chain names from the parent on, or None.
RECURSIVE C21_Named(_, _, _, _)
C21_Named(heap, ty, parts, i) ==
  LET field == find_field(ty, parts[i])
  IN IF field = None \/ i = Len(parts) THEN field
     ELSE IF /\ field.type.kind = "Pointer"
             /\ field.type.base_type.kind = "Object"
             /\ heap[field.type.base_type.name].kind = "Struct"
       THEN C21_Named(heap, heap[field.type.base_type.name], parts, i + 1)
     ELSE None

C21_Expected(heap, parent, length, o) ==
  IF \A i \in DOMAIN length : ~C21_StartsIdentifier(length, i) THEN length
  ELSE LET i == CHOOSE i \in DOMAIN length :
                  /\ C21_StartsIdentifier(length, i)
                  /\ \A j \in 1..(i - 1) : ~C21_StartsIdentifier(length, j)
           e == C21_ChainEnd(length, i)
           chain == SubSeq(length, i, e - 1)
           field == C21_Named(heap, parent, split_arrow(chain), 1)
           prefixed == (IF field.type.kind = "Pointer" THEN <<"*">> ELSE <<>>)
                         \o (IF o.none THEN <<>> ELSE o.text \o <<".">>)
                         \o chain
       IN IF field = None THEN length
          ELSE SubSeq(length, 1, i - 1) \o prefixed
                 \o SubSeq(length, e, Len(length))

C21_LengthExprRewritesFirstChain ==
  pc = "cycle_done" =>
    \A a \in LoadedArrays, o \in ObjectExpressions :
      length_expr(typeObj, a.parent, a.field.type.length.text, o)
        = Returns(C21_Expected(typeObj, a.parent, a.field.type.length.text,
                               o))

(* ====================================================================== *)
(* HandleInfoGlobals: the commands that create handles.                    *)
(*                                                                         *)
(* The part of _build_handle_infos that records the HandleCreateCommands   *)
(* (the loop over the vkCreate and vkAllocate commands and the five        *)
(* commands added by name), as a function of a loaded registry.  A         *)
(* parameter or member is identified by its index in its command or        *)
(* struct, 0 standing for None.                                            *)
(* ====================================================================== *)
\* The names of the commands of these documents, as characters.
vkCreateInstance_text ==
  <<"v", "k", "C", "r", "e", "a", "t", "e", "I", "n", "s", "t", "a", "n",
  "c", "e">>
vkCreateX_text ==
  <<"v", "k", "C", "r", "e", "a", "t", "e", "X">>
vkAllocateX_text ==
  <<"v", "k", "A", "l", "l", "o", "c", "a", "t", "e", "X">>
vkEnumeratePhysicalDevices_text ==
  <<"v", "k", "E", "n", "u", "m", "e", "r", "a", "t", "e", "P", "h", "y",
  "s", "i", "c", "a", "l", "D", "e", "v", "i", "c", "e", "s">>
vkGetDeviceQueue_text ==
  <<"v", "k", "G", "e", "t", "D", "e", "v", "i", "c", "e", "Q", "u", "e",
  "u", "e">>
vkGetDeviceQueue2_text ==
  <<"v", "k", "G", "e", "t", "D", "e", "v", "i", "c", "e", "Q", "u", "e",
  "u", "e", "2">>
vkGetSwapchainImagesKHR_text ==
  <<"v", "k", "G", "e", "t", "S", "w", "a", "p", "c", "h", "a", "i", "n",
  "I", "m", "a", "g", "e", "s", "K", "H", "R">>
vkGetDisplayPlaneSupportedDisplaysKHR_text ==
  <<"v", "k", "G", "e", "t", "D", "i", "s", "p", "l", "a", "y", "P", "l",
  "a", "n", "e", "S", "u", "p", "p", "o", "r", "t", "e", "d", "D", "i",
  "s", "p", "l", "a", "y", "s", "K", "H", "R">>
CommandNameTexts ==
  {vkCreateInstance_text,
   vkCreateX_text,
   vkAllocateX_text,
   vkEnumeratePhysicalDevices_text,
   vkGetDeviceQueue_text,
   vkGetDeviceQueue2_text,
   vkGetSwapchainImagesKHR_text,
   vkGetDisplayPlaneSupportedDisplaysKHR_text}

\* The characters of a command name of these documents.
NameText(name) == CHOOSE c \in CommandNameTexts : Join(c) = name

\* name.startswith(prefix)
startswith(name, prefix) ==
  LET s == NameText(name)
  IN Len(s) >= Len(prefix) /\ SubSeq(s, 1, Len(prefix)) = prefix
vkCreate == <<"v", "k", "C", "r", "e", "a", "t", "e">>
vkAllocate == <<"v", "k", "A", "l", "l", "o", "c", "a", "t", "e">>

\* isinstance(t, Handle), isinstance(t, Struct) for a resolved type.
IsA(heap, t, kind) == t.kind = "Object" /\ heap[t.name].kind = kind

\* The loop over cmd.parameters of _add_handle_create_command from
\* parameter i on: the parent, create-info and handle parameters found so
\* far, or the failed assertion.
RECURSIVE ScanParameters(_, _, _, _)
ScanParameters(heap, params, i, st) ==
  IF i > Len(params) \/ st.raised # "" THEN st
  ELSE
    LET p == params[i]
        is_pointer == p.type.kind \in {"Pointer", "DynamicArray"}
        is_pointer_to_struct ==
          is_pointer /\ IsA(heap, p.type.base_type, "Struct")
        is_pointer_to_handle ==
          is_pointer /\ IsA(heap, p.type.base_type, "Handle")
        with_parent ==
          IF IsA(heap, p.type, "Handle") /\ st.parent_param = 0
            THEN [st EXCEPT !.parent_param = i] ELSE st
        next ==
          IF /\ is_pointer_to_struct
             /\ p.type.is_const
             /\ p.type.base_type.name # "VkAllocationCallbacks"
            THEN IF st.create_info_param # 0
                   THEN [with_parent EXCEPT !.raised = "AssertionError"]
                   ELSE [with_parent EXCEPT !.create_info_param = i]
          ELSE IF is_pointer_to_handle /\ ~p.type.is_const
            THEN IF st.handle_param # 0
                   THEN [with_parent EXCEPT !.raised = "AssertionError"]
                   ELSE [with_parent EXCEPT !.handle_param = i]
          ELSE with_parent
    IN ScanParameters(heap, params, i + 1, next)

\* The loop over create_info.members: the member whose type is a Handle.
HandleMembers(heap, create_info) ==
  {i \in DOMAIN create_info.members :
     IsA(heap, create_info.members[i].type, "Handle")}

\* Mutant of HandleCreateFlags: a command is a get command unless its name
\* starts with vkCreate.
HandleCreateFlags_GetUnlessCreate(name, pool_member) ==
  LET is_create == startswith(name, vkCreate)
      is_pool_allocate == startswith(name, vkAllocate) /\ pool_member # 0
  IN [is_create |-> is_create
                      \/ (startswith(name, vkAllocate) /\ pool_member = 0),
      is_pool_allocate |-> is_pool_allocate,
      is_get |-> ~is_create]

\* is_create, is_pool_allocate and is_get of _add_handle_create_command
\* for the command of this name and the pool member found (0 for None).
HandleCreateFlags(name, pool_member) ==
  LET is_create == \/ startswith(name, vkCreate)
                   \/ startswith(name, vkAllocate) /\ pool_member = 0
      is_pool_allocate == startswith(name, vkAllocate) /\ pool_member # 0
  IN [is_create |-> is_create,
      is_pool_allocate |-> is_pool_allocate,
      is_get |-> ~(is_create \/ is_pool_allocate)]

\* HandleInfoGlobals._add_handle_create_command(name) on the registry reg
\* (types, heap, commands, cmds) and the handle infos so far: the handle
\* infos after it, or the exception.
add_handle_create_command(reg, infos, name) ==
  IF \A e \in Range(reg.commands) : e.key # name THEN Raises("KeyError")
  ELSE IF "VkAllocationCallbacks" \notin Range(reg.types)
    THEN Raises("KeyError")
  ELSE
    LET cmd == reg.cmds[CommandOf(reg.commands, name)]
        st == ScanParameters(reg.heap, cmd.parameters, 1,
                [raised |-> "", parent_param |-> 0,
                 create_info_param |-> 0, handle_param |-> 0])
        parent == IF st.parent_param # 0
                    THEN cmd.parameters[st.parent_param].type ELSE None
        create_info ==
          IF st.create_info_param # 0
            THEN cmd.parameters[st.create_info_param].type.base_type
            ELSE None
        members == HandleMembers(reg.heap, reg.heap[create_info.name])
        pool_member == IF startswith(name, vkAllocate) /\ members # {}
                         THEN CHOOSE i \in members : TRUE ELSE 0
        pool == IF pool_member # 0
                  THEN reg.heap[create_info.name].members[pool_member].type
                  ELSE None
        flags == HandleCreateFlags(name, pool_member)
        handle == cmd.parameters[st.handle_param].type.base_type
        create_cmd ==
          [command |-> cmd.name, parent_param |-> st.parent_param,
           pool_member |-> pool_member, create_info |-> create_info,
           create_info_param |-> st.create_info_param,
           handle_param |-> st.handle_param,
           is_create |-> flags.is_create,
           is_pool_allocate |-> flags.is_pool_allocate,
           is_get |-> flags.is_get]
    IN IF st.raised # "" THEN Raises(st.raised)
       ELSE IF st.handle_param = 0 THEN Returns(infos)
       ELSE IF st.parent_param = 0 /\ name # "vkCreateInstance"
         THEN Raises("AssertionError")
       ELSE IF startswith(name, vkAllocate) /\ create_info = None
         THEN Raises("AttributeError")
       ELSE IF startswith(name, vkAllocate) /\ Cardinality(members) > 1
         THEN Raises("AssertionError")
       ELSE IF handle.name \in DOMAIN infos
         THEN IF infos[handle.name].parent # parent
                   \/ infos[handle.name].pool # pool
                THEN Raises("AssertionError")
                ELSE Returns([infos EXCEPT ![handle.name].create_cmds =
                                Append(@, create_cmd)])
       ELSE Returns(Put(infos, handle.name,
                        [handle |-> handle, parent |-> parent, pool |-> pool,
                         create_cmds |-> <<create_cmd>>]))

\* The commands _build_handle_infos adds: the canonical keys of
\* registry.commands that start with vkCreate or vkAllocate, in the order
\* of the dictionary, then five commands by name.
CreateCommandKeys(reg) ==
  LET IsCreateKey(e) ==
        /\ e.cmd = e.key
        /\ startswith(e.key, vkCreate) \/ startswith(e.key, vkAllocate)
      listed == SelectSeq(reg.commands, IsCreateKey)
  IN [i \in DOMAIN listed |-> listed[i].key]
       \o <<"vkEnumeratePhysicalDevices", "vkGetDeviceQueue",
            "vkGetDeviceQueue2", "vkGetSwapchainImagesKHR",
            "vkGetDisplayPlaneSupportedDisplaysKHR">>

RECURSIVE AddHandleCreateCommands(_, _, _)
AddHandleCreateCommands(reg, infos, names) ==
  IF names = <<>> \/ infos.raised # "" THEN infos
  ELSE AddHandleCreateCommands(
         reg, add_handle_create_command(reg, infos.value, Head(names)),
         Tail(names))

\* The handle infos after the part of _build_handle_infos that adds the
\* create commands: handle name -> HandleInfo.
build_handle_infos(reg) ==
  AddHandleCreateCommands(reg, Returns(EmptyMap), CreateCommandKeys(reg))

\* HandleInfoGlobals.command_handle_created(cmd): the HandleCreateCommand
\* of the first parameter that is the handle parameter of a create command
\* of its handle, or None.
command_handle_created(reg, infos, cmd) ==
  LET Created(i) ==
        LET p == cmd.parameters[i]
        IN /\ p.type.kind \in {"Pointer", "DynamicArray"}
           /\ ~p.type.is_const
           /\ IsA(reg.heap, p.type.base_type, "Handle")
           /\ p.type.base_type.name \in DOMAIN infos
           /\ \E cc \in Range(infos[p.type.base_type.name].create_cmds) :
                cc.command = cmd.name /\ cc.handle_param = i
      found == {i \in DOMAIN cmd.parameters : Created(i)}
  IN IF found = {} THEN None
     ELSE LET i == CHOOSE i \in found : \A j \in found : i <= j
              cmds == infos[cmd.parameters[i].type.base_type.name].create_cmds
          IN SelectSeq(cmds, LAMBDA cc : cc.command = cmd.name
                                           /\ cc.handle_param = i)[1]

is_create_command(reg, infos, cmd) ==
  LET create_cmd == command_handle_created(reg, infos, cmd)
  IN IF create_cmd # None THEN create_cmd.is_create ELSE FALSE

is_pool_allocate_command(reg, infos, cmd) ==
  LET create_cmd == command_handle_created(reg, infos, cmd)
  IN IF create_cmd # None THEN create_cmd.is_pool_allocate ELSE FALSE

is_get_command(reg, infos, cmd) ==
  LET create_cmd == command_handle_created(reg, infos, cmd)
  IN IF create_cmd # None THEN create_cmd.is_get ELSE FALSE

(* ---------------------------------------------------------------------- *)
(* The documents: the handles, a create-info struct S1 with or without     *)
(* handle members, VkAllocationCallbacks, one command whose name and       *)
(* parameters vary, with or without an alias, and the commands             *)
(* _build_handle_infos adds by name.                                       *)
(* ---------------------------------------------------------------------- *)
CreateHandles ==
  << HandleDecl("VkInstance", ""), HandleDecl("VkDevice", "VkInstance"),
     HandleDecl("VkQueue", "VkDevice"), HandleDecl("VkImage", "VkDevice"),
     HandleDecl("VkCommandPool", "VkDevice") >>
CreateInfoMembers ==
  { <<MemberField("n", "uint32_t", <<>>)>>,
    <<MemberField("n", "uint32_t", <<>>),
      MemberField("pool", "VkCommandPool", <<>>)>>,
    <<MemberField("pool", "VkCommandPool", <<>>),
      MemberField("pool2", "VkCommandPool", <<>>)>> }
DeviceParam == MemberField("device", "VkDevice", <<>>)
InfoParam == MemberField("pInfo", "S1", <<"const", "*">>)
AllocatorParam ==
  MemberField("pAllocator", "VkAllocationCallbacks", <<"const", "*">>)
OutParam(type) == MemberField("pOut", type, <<"*">>)
CreateParamLists ==
  { <<DeviceParam, InfoParam, AllocatorParam, OutParam("VkQueue")>>,
    <<DeviceParam, OutParam("VkQueue")>>,
    <<DeviceParam, InfoParam,
      MemberField("pOut", "VkQueue", <<"const", "*">>)>>,
    <<InfoParam, AllocatorParam, OutParam("VkQueue")>>,
    <<DeviceParam, MemberField("n", "uint32_t", <<>>), InfoParam,
      [name |-> "pOut", type |-> "VkQueue", type_str |-> <<"*">>,
       len |-> Attr(<<"n">>), altlen |-> Absent]>>,
    <<DeviceParam, InfoParam, OutParam("VkQueue"),
      MemberField("pOut2", "VkImage", <<"*">>)>> }
VariableNames ==
  {"vkCreateInstance", "vkCreateX", "vkAllocateX", "vkGetDeviceQueue"}
NamedCommands ==
  <<"vkEnumeratePhysicalDevices", "vkGetDeviceQueue", "vkGetDeviceQueue2",
    "vkGetSwapchainImagesKHR", "vkGetDisplayPlaneSupportedDisplaysKHR">>
CommandDecl(name, params) ==
  [name |-> name, alias |-> Absent, params |-> params,
   successcodes |-> Absent, errorcodes |-> Absent]
CommandAlias(name, alias) ==
  [name |-> name, alias |-> Attr(alias), params |-> <<>>,
   successcodes |-> Absent, errorcodes |-> Absent]
CreateCommandSection(name, params, aliased) ==
  LET others == SelectSeq(NamedCommands, LAMBDA n : n # name)
  IN <<CommandDecl(name, params)>>
       \o (IF aliased THEN <<CommandAlias("vkCmdKHR", name)>> ELSE <<>>)
       \o [i \in DOMAIN others |->
             CommandDecl(others[i], <<DeviceParam, OutParam("VkImage")>>)]
CreateDocuments ==
  {[types |-> CreateHandles
                \o <<StructDecl("S1", ms),
                     StructDecl("VkAllocationCallbacks",
                                <<MemberField("n", "uint32_t", <<>>)>>)>>,
    commands |-> CreateCommandSection(n, ps, al)] :
     ms \in CreateInfoMembers, n \in VariableNames, ps \in CreateParamLists,
     al \in BOOLEAN}

CreateInit ==
  /\ pc = "cycle_types"
  /\ root \in CreateDocuments
  /\ typeObj = [n \in Range(DeclBaseTypes) |-> NewType("BaseType")]
  /\ types = DeclBaseTypes
  /\ cmdObj = EmptyMap
  /\ extObj = EmptyMap
  /\ commands = <<>>
  /\ extensions = <<>>
  /\ platforms = EmptyMap
  /\ args = NoArgs

CreateSpec == CreateInit /\ [][CycleNext]_vars

\* The loaded registry, as HandleInfoGlobals reads it.
LoadedRegistry ==
  [types |-> types, heap |-> typeObj, commands |-> commands, cmds |-> cmdObj]

(* ---------------------------------------------------------------------- *)
(* C30  Every HandleCreateCommand recorded by HandleInfoGlobals has        *)
(* exactly one of is_create, is_pool_allocate and is_get true:             *)
(* is_pool_allocate iff the command name starts with 'vkAllocate' and its  *)
(* create-info struct has a handle-typed member, is_create iff the name    *)
(* starts with 'vkCreate' or it is a 'vkAllocate' command without such a   *)
(* member, is_get otherwise; so at most one of is_create_command,          *)
(* is_pool_allocate_command and is_get_command is true for any command.    *)
(* ---------------------------------------------------------------------- *)
C30_Count(flags) == Cardinality({i \in DOMAIN flags : flags[i]})

\* The name of the document's command element begins with these letters.
C30_Begins(name, prefix) ==
  \E c \in CommandNameTexts :
    /\ Join(c) = name
    /\ \A i \in DOMAIN prefix : i <= Len(c) /\ c[i] = prefix[i]

\* The create-info struct of the command has a member of handle type.
C30_HasPool(cc) ==
  /\ cc.create_info # None
  /\ \E m \in Range(typeObj[cc.create_info.name].members) :
       m.type.kind = "Object" /\ typeObj[m.type.name].kind = "Handle"

C30_Recorded(infos) ==
  UNION {Range(infos[h].create_cmds) : h \in DOMAIN infos}

C30_ExactlyOneKindPerCreateCommand ==
  pc = "cycle_done" =>
    LET built == build_handle_infos(LoadedRegistry)
    IN built.raised = "" =>
         /\ \A cc \in C30_Recorded(built.value) :
              /\ C30_Count(<<cc.is_create, cc.is_pool_allocate, cc.is_get>>)
                   = 1
              /\ cc.is_pool_allocate <=>
                   (C30_Begins(cc.command, vkAllocate) /\ C30_HasPool(cc))
              /\ cc.is_create <=>
                   \/ C30_Begins(cc.command, vkCreate)
                   \/ C30_Begins(cc.command, vkAllocate) /\ ~C30_HasPool(cc)
         /\ \A c \in DOMAIN cmdObj :
              C30_Count(
                <<is_create_command(LoadedRegistry, built.value, cmdObj[c]),
                  is_pool_allocate_command(LoadedRegistry, built.value,
                                           cmdObj[c]),
                  is_get_command(LoadedRegistry, built.value, cmdObj[c])>>)
                <= 1

\* A registry whose recorded commands hold a pool allocation and a get
\* command, each answered by its own query only.
C30_Witness ==
  /\ pc = "cycle_done"
  /\ LET built == build_handle_infos(LoadedRegistry)
     IN /\ built.raised = ""
        /\ \E cc \in C30_Recorded(built.value) :
             /\ cc.is_pool_allocate
             /\ cc.pool_member # 0
             /\ is_pool_allocate_command(LoadedRegistry, built.value,
                                         cmdObj[cc.command])
             /\ ~is_create_command(LoadedRegistry, built.value,
                                   cmdObj[cc.command])
        /\ \E cc \in C30_Recorded(built.value) :
             /\ cc.is_get
             /\ is_get_command(LoadedRegistry, built.value,
                               cmdObj[cc.command])

====
